---- MODULE Spec2Model ----
(***************************************************************************)
(* The write path of the logical replication consumer                      *)
(* (logical_replication_writer_processor.go): the consumeEvents loop, the   *)
(* flush coordinator (flush / maybeFlush), the flushLoop, the batch applier *)
(* (flushBuffer) and the Next / close boundary of the processor.            *)
(*                                                                         *)
(* Three state machines share this module.                                  *)
(*   SpecFlush  one call of flushBuffer, worker by worker and sub-batch by  *)
(*              sub-batch, for every small buffer, pool length and batch    *)
(*              size.                                                       *)
(*   SpecCalls  one call of shouldFlushOnKVSize or of bufferCheckpoint on   *)
(*              every small argument.                                       *)
(*   Spec       the pipeline: subscription goroutine, consumeEvents,        *)
(*              flushLoop, Next and close, with flushBuffer as one step     *)
(*              computed by the same chunking operators.                    *)
(***************************************************************************)
EXTENDS Integers, Sequences, FiniteSets, TLC

\* ------------------------------------------------------------------ bounds

\* Longest buffer handed to flushBuffer in SpecFlush.
MaxKVs == 3

\* const maxWriterWorkers = 32: the length of the handler pool lrw.bh.
maxWriterWorkers == 32

\* Keys are (row, family) pairs in byte order: the row prefix first, then the
\* column-family suffix.  Family 0 stands for a key without a family suffix.
Rows == {1, 2, 3}
Families == {0, 1}
Keys == [row : Rows, fam : Families]

\* Source (MVCC) timestamps of mutations.
Timestamps == {1, 2}

\* Events the subscription delivers in one run of the pipeline, and firings of
\* the flush timer between two of them.
MaxEvents == 2
MaxTicks == 1

\* Calls of close() in one run of the pipeline.
MaxCloses == 2

\* Lengths of the handler pool tried in SpecFlush (production: maxWriterWorkers).
WorkerCounts == {1, 2, maxWriterWorkers}

\* Values of logical_replication.consumer.batch_size (settings.NonNegativeInt).
BatchSizes == {0, 1, 2}

\* ------------------------------------------------------- helper operators

Min(a, b) == IF a < b THEN a ELSE b
Max(a, b) == IF a > b THEN a ELSE b

RECURSIVE SeqsUpTo(_, _)
\* All sequences over S of length at most n.
SeqsUpTo(S, n) ==
    IF n = 0 THEN {<<>>}
    ELSE LET shorter == SeqsUpTo(S, n - 1)
         IN  shorter \cup {Append(s, x) : s \in {t \in shorter : Len(t) = n - 1}, x \in S}

\* Range of a sequence.
Range(s) == {s[i] : i \in DOMAIN s}

\* ---------------------------------------------------- flushBuffer: sorting

\* keys.EnsureSafeSplitKey: strips the column-family suffix of a row key, and
\* fails on a key that carries none.
EnsureSafeSplitKey(key) ==
    IF key.fam = 0 THEN [ok |-> FALSE, key |-> key]
    ELSE [ok |-> TRUE, key |-> [row |-> key.row, fam |-> 0]]

\* The closure k of flushBuffer: the split-safe key of a mutation, the key
\* itself when EnsureSafeSplitKey fails.
k(kv) ==
    LET p == EnsureSafeSplitKey(kv.key)
    IN  IF p.ok THEN p.key ELSE kv.key

\* roachpb.Key.Compare: byte order, -1 / 0 / 1.
KeyCompare(a, b) ==
    IF a.row < b.row THEN -1
    ELSE IF a.row > b.row THEN 1
    ELSE IF a.fam < b.fam THEN -1
    ELSE IF a.fam > b.fam THEN 1
    ELSE 0

\* hlc.Timestamp.Compare.
TimestampCompare(a, b) == IF a < b THEN -1 ELSE IF a > b THEN 1 ELSE 0

\* SortCmp as it would be without the timestamp tie-break.
SortCmpKeyOnly(a, b) == KeyCompare(k(a), k(b))

\* The comparison handed to slices.SortFunc: split-safe key, then timestamp.
SortCmp(a, b) ==
    LET c == KeyCompare(k(a), k(b))
    IN  IF c # 0 THEN c ELSE TimestampCompare(a.ts, b.ts)

RECURSIVE InsertSorted(_, _)
InsertSorted(s, x) ==
    IF s = <<>> THEN <<x>>
    ELSE IF SortCmp(x, Head(s)) < 0 THEN <<x>> \o s
    ELSE <<Head(s)>> \o InsertSorted(Tail(s), x)

RECURSIVE SortFunc(_)
\* slices.SortFunc(kvs, SortCmp): kvs in ascending SortCmp order.
SortFunc(s) ==
    IF s = <<>> THEN <<>>
    ELSE InsertSorted(SortFunc(SubSeq(s, 1, Len(s) - 1)), s[Len(s)])

\* ---------------------------------------------------- flushBuffer: chunking

\* Go slices are indexed from 0: kvs[i] is the TLA+ element i + 1.
At(kvs, i) == kvs[i + 1]

\* ChunkSize as it would be with the "+1" dropped (an even share, at least 1).
ChunkSizeEvenShare(n, nWorkers, batchSize) == Max(Max(n \div nWorkers, 1), batchSize)

\* ChunkSize as it would be without regard to the batch size.
ChunkSizeShareOnly(n, nWorkers, batchSize) == (n \div nWorkers) + 1

\* chunkSize := max((len(kvs)/len(lrw.bh))+1, batchSize)
ChunkSize(n, nWorkers, batchSize) == Max((n \div nWorkers) + 1, batchSize)

\* ExtendChunk as it would be without the forward extension over equal keys.
ExtendChunkNone(kvs, chunkEnd) == chunkEnd

RECURSIVE ExtendChunk(_, _)
\* for chunkEnd < len(kvs) && k(kvs[chunkEnd-1]).Equal(k(kvs[chunkEnd])) { chunkEnd++ }
ExtendChunk(kvs, chunkEnd) ==
    IF chunkEnd < Len(kvs) /\ k(At(kvs, chunkEnd - 1)) = k(At(kvs, chunkEnd))
    THEN ExtendChunk(kvs, chunkEnd + 1)
    ELSE chunkEnd

\* chunkEnd of the chunk that starts at chunkStart.
ChunkEnd(kvs, chunkStart, chunkSize) ==
    ExtendChunk(kvs, Min(chunkStart + chunkSize, Len(kvs)))

RECURSIVE ChunkLoop(_, _, _, _, _, _)
\* The "for worker := range lrw.bh" loop: the chunks given to the workers, in
\* worker order, and chunkStart when the loop ends.
ChunkLoop(kvs, worker, nWorkers, chunkStart, chunkSize, acc) ==
    IF worker >= nWorkers \/ chunkStart >= Len(kvs)
    THEN [chunks |-> acc, chunkStart |-> chunkStart]
    ELSE LET chunkEnd == ChunkEnd(kvs, chunkStart, chunkSize)
         IN  ChunkLoop(kvs, worker + 1, nWorkers, chunkEnd, chunkSize,
                       Append(acc, [batchStart |-> chunkStart, chunkEnd |-> chunkEnd]))

\* The synchronous part of flushBuffer on a sorted, non-empty kvs.
Chunking(kvs, nWorkers, batchSize) ==
    ChunkLoop(kvs, 0, nWorkers, 0, ChunkSize(Len(kvs), nWorkers, batchSize), <<>>)

\* batchEnd := min(batchStart+batchSize, chunkEnd)
BatchEnd(batchStart, batchSize, chunkEnd) == Min(batchStart + batchSize, chunkEnd)

\* ------------------------------------------------------------------ state

VARIABLES
    \* One call of flushBuffer (SpecFlush).
    fbWorkers,    \* len(lrw.bh)
    fbBatchSize,  \* flushBatchSize.Get(...)
    fbPc,         \* "call", "workers", "panicked" or "returned"
    fbBuffer,     \* b.buffer, the ingestionBuffer handed in, with its identity
    fbKvs,        \* kvs, the slice of b.buffer.curKVBatch flushBuffer sorts in place: it
                  \* keeps its length and its elements when the buffer is reset
    fbReordered,  \* whether slices.SortFunc changed the order of the buffer
    fbChunks,     \* one record per launched worker goroutine
    fbHandled,    \* (worker, position) of each kv passed to a successful HandleBatch, in call order
    fbErr         \* whether flushBuffer returned an error

fbVars == <<fbWorkers, fbBatchSize, fbPc, fbBuffer, fbKvs, fbReordered, fbChunks, fbHandled, fbErr>>

VARIABLES
    \* The processor (ProcessorBase) and its channels.
    State,              \* lrw.State: "new" before Start, then "running" or "draining"
    trailingErr,        \* the error handed to MoveToDraining
    Closed,             \* lrw.Closed, set by InternalClose
    closePc,            \* close(): "idle", or "wait" while in workerGroup.Wait ("crashed": the process died)
    stopCh,             \* "open" or "closed" ("panic": closed when it was closed)
    subscriptionCtx,    \* "live" or "canceled"
    flushCh,            \* "open" or "closed"
    checkpointCh,       \* "open" or "closed"
    errCh,              \* the buffered errors, at most one (capacity 1)
    flushInProgress,    \* the atomic.Bool
    \* The subscription goroutine.
    subPc,              \* "idle", "running", "returnedErr" or "done" ("crashed": the process died)
    eventCh,            \* subscription.Events(): "open" or "closed"
    nEvents,            \* events received from the subscription so far
    \* The consumeEvents goroutine.
    consumePc,          \* "idle", "select", "flush", "failed", "exit", "done" or "panicked"
    afterFlush,         \* where consumeEvents goes when flush returns
    buffer,             \* lrw.buffer
    bufferId,           \* which ingestionBuffer lrw.buffer points to
    frontier,           \* lrw.frontier: span -> timestamp
    lastFlushTime,      \* lrw.lastFlushTime (0: the zero time)
    lastFlushFrontier,  \* lrw.lastFlushFrontier
    nTicks,             \* firings of maxFlushRateTimer since the last event
    offered,            \* the flushableBuffer that flush offers on flushCh
    \* The flushLoop goroutine.
    flushPc,            \* "idle", "recv", "store", "flushBuffer", "spinning",
                        \* "send", "clear", "failed", "exit", "panicked" or "done"
    bufferToFlush,      \* the flushableBuffer received from flushCh
    batchSize,          \* batchSize, a local of flushBuffer (0 outside the call)
    flushChunks,        \* the worker goroutines of flushBuffer, each with its chunk, and its final chunkStart
    \* History.
    nRecv,              \* mutations appended to a buffer so far (they are numbered 1..nRecv)
    nFlushes,           \* calls of flush so far (the units are numbered 1..nFlushes)
    applied,            \* numbers of the mutations passed to a successful HandleBatch
    delivered,          \* the checkpoints returned by Next as rows, in order
    failed,             \* the goroutines that ended with an error
    failedUnits,        \* numbers of the units on which flushBuffer returned an error
    rowsAtBadEvent,     \* rows Next had returned when the unsupported event was handled
    sent,               \* the errors passed to sendError, in order
    called,             \* what the last step of consumeEvents called: flush, maybeFlush or none
    handled,            \* the type of the event that step passed to handleEvent, or "none"
    nCloses,            \* calls of close() so far
    malformed,          \* the type of the malformed event handleEvent was given, or "none"
    \* The package's buffer pool.
    bufferPool,         \* bufferPool: the buffers Put and not taken since, each with its identity
    nBuffers            \* ingestionBuffers allocated so far (they are numbered 1..nBuffers)

procVars == <<State, trailingErr, Closed, closePc, stopCh, subscriptionCtx>>
chanVars == <<flushCh, checkpointCh, errCh, flushInProgress>>
subVars == <<subPc, eventCh, nEvents>>
consumeVars == <<consumePc, afterFlush, buffer, bufferId, frontier, lastFlushTime, lastFlushFrontier,
                 nTicks, offered>>
flushVars == <<flushPc, bufferToFlush, batchSize, flushChunks>>
poolVars == <<bufferPool, nBuffers>>
histVars == <<nRecv, nFlushes, applied, delivered, failed, failedUnits, rowsAtBadEvent, sent, called,
              handled, nCloses, malformed>>

pipeVars == <<procVars, chanVars, subVars, consumeVars, flushVars, histVars, poolVars>>

VARIABLES
    \* One call of a function of the processor on given arguments (SpecCalls).
    callPc,       \* "call" or "returned"
    callArgs,     \* the function called and its arguments
    callResult    \* what it returned

callVars == <<callPc, callArgs, callResult>>

vars == <<fbVars, pipeVars, callVars>>

\* ------------------------------------------------- ingestion buffers

\* hlc.MaxTimestamp, above every timestamp of the model.
MaxTimestamp == 1000

\* roachpb.KeyValue.Size(): grows with the length of the key.
Size(kv) == 2 + kv.key.fam

\* NewIngestionBuffer()
NewIngestionBuffer == [curKVBatch |-> <<>>, curKVBatchSize |-> 0, minTimestamp |-> MaxTimestamp]

\* ingestionBuffer.addKV
addKV(b, kv) ==
    [curKVBatch |-> Append(b.curKVBatch, kv),
     curKVBatchSize |-> b.curKVBatchSize + Size(kv),
     minTimestamp |-> IF kv.ts < b.minTimestamp THEN kv.ts ELSE b.minTimestamp]

\* reset as it would be if it only truncated curKVBatch.
resetBatchOnly(b) ==
    [curKVBatch |-> <<>>, curKVBatchSize |-> b.curKVBatchSize, minTimestamp |-> b.minTimestamp]

\* ingestionBuffer.reset
reset(b) == [curKVBatch |-> <<>>, curKVBatchSize |-> 0, minTimestamp |-> MaxTimestamp]

\* getBuffer as it would be if the pool handed out buffers it was not given
\* back.
getBufferInUse(pool, n) ==
    pool \cup {[id |-> i, b |-> NewIngestionBuffer] : i \in 1..(n + 1)}

\* getBuffer(): the buffers bufferPool.Get() may return, each with its
\* identity: one that was Put and not taken since, or a new one from New.
getBuffer(pool, n) == pool \cup {[id |-> n + 1, b |-> NewIngestionBuffer]}

\* releaseBuffer(b): the pool after b.reset() and bufferPool.Put(b).
releaseBuffer(pool, id, b) == pool \cup {[id |-> id, b |-> reset(b)]}

RECURSIVE addKVs(_, _)
\* addKV for each of kvs, in order.
addKVs(b, kvs) ==
    IF kvs = <<>> THEN b ELSE addKVs(addKV(b, Head(kvs)), Tail(kvs))

RECURSIVE bufferKVsLoop(_, _, _)
\* The loop of bufferKVs: addKV for each kv, numbered n+1, n+2, ... as received.
bufferKVsLoop(b, kvs, n) ==
    IF kvs = <<>> THEN b
    ELSE bufferKVsLoop(addKV(b, [key |-> Head(kvs).key, ts |-> Head(kvs).ts, id |-> n + 1]),
                       Tail(kvs), n + 1)

\* Mutations of SpecFlush: a key and a source timestamp.  The buffer handed to
\* flushBuffer there is none of the pipeline's: its identity is 0.
FlushKVs == [key : Keys, ts : Timestamps]

\* ------------------------------------------------- SpecFlush: flushBuffer

FBInit ==
    /\ \E kvs \in SeqsUpTo(FlushKVs, MaxKVs) :
          fbBuffer = [id |-> 0, b |-> addKVs(NewIngestionBuffer, kvs)]
    /\ fbKvs = fbBuffer.b.curKVBatch
    /\ fbReordered = FALSE
    /\ fbWorkers \in WorkerCounts
    /\ fbBatchSize \in BatchSizes
    /\ fbPc = "call"
    /\ fbChunks = <<>>
    /\ fbHandled = <<>>
    /\ fbErr = FALSE

\* The worker goroutines launched for the chunks: each starts at its batchStart.
LaunchWorkers(chunks) ==
    [w \in DOMAIN chunks |->
        [batchStart |-> chunks[w].batchStart, chunkStart |-> chunks[w].batchStart,
         chunkEnd |-> chunks[w].chunkEnd, state |-> "running", calls |-> 0]]

\* flushBuffer up to g.Wait(): the early return on an empty buffer, which
\* releases the buffer, or the sort, the chunk loop that launches the workers,
\* and the assertion after it.
FBStart ==
    /\ fbPc = "call"
    /\ IF Len(fbBuffer.b.curKVBatch) = 0
       THEN /\ fbPc' = "returned"
            /\ fbBuffer' = [fbBuffer EXCEPT !.b = reset(@)]
            /\ bufferPool' = releaseBuffer(bufferPool, fbBuffer.id, fbBuffer.b)
            /\ UNCHANGED <<fbKvs, fbReordered, fbChunks>>
       ELSE LET kvs == SortFunc(fbBuffer.b.curKVBatch)
                c == Chunking(kvs, fbWorkers, fbBatchSize)
            IN  /\ fbKvs' = kvs
                /\ fbBuffer' = [fbBuffer EXCEPT !.b.curKVBatch = kvs]
                /\ fbReordered' = (kvs # fbKvs)
                /\ fbChunks' = LaunchWorkers(c.chunks)
                /\ fbPc' = IF c.chunkStart # Len(kvs) THEN "panicked" ELSE "workers"
                /\ UNCHANGED bufferPool
    /\ UNCHANGED <<procVars, chanVars, subVars, consumeVars, flushVars, histVars, nBuffers,
                   callVars, fbWorkers, fbBatchSize, fbHandled, fbErr>>

\* The slice kvs[batchStart:batchEnd] handled by worker w, as log entries.
Handled(w, batchStart, batchEnd) ==
    [i \in 1..(batchEnd - batchStart) |-> [worker |-> w, pos |-> batchStart + i - 1]]

\* One iteration of a worker's sub-batch loop whose HandleBatch succeeds.
FBHandleBatchOk(w) ==
    /\ fbPc = "workers"
    /\ w \in DOMAIN fbChunks
    /\ fbChunks[w].state = "running"
    /\ fbChunks[w].batchStart < fbChunks[w].chunkEnd
    \* A loop that ends makes at most one call per mutation of its chunk: the
    \* model follows a worker for one call more than that and no further.
    /\ fbChunks[w].calls <= fbChunks[w].chunkEnd - fbChunks[w].chunkStart
    /\ LET c == fbChunks[w]
           batchEnd == BatchEnd(c.batchStart, fbBatchSize, c.chunkEnd)
       IN  /\ fbHandled' = fbHandled \o Handled(w, c.batchStart, batchEnd)
           /\ fbChunks' = [fbChunks EXCEPT ![w] =
                  [c EXCEPT !.batchStart = batchEnd,
                            !.calls = c.calls + 1,
                            !.state = IF batchEnd < c.chunkEnd THEN "running" ELSE "done"]]
    /\ UNCHANGED <<pipeVars, callVars, fbWorkers, fbBatchSize, fbPc, fbBuffer, fbKvs, fbReordered, fbErr>>

\* One iteration whose HandleBatch fails: the goroutine returns the error.
FBHandleBatchErr(w) ==
    /\ fbPc = "workers"
    /\ w \in DOMAIN fbChunks
    /\ fbChunks[w].state = "running"
    /\ fbChunks[w].batchStart < fbChunks[w].chunkEnd
    /\ fbChunks' = [fbChunks EXCEPT ![w].state = "failed", ![w].calls = @ + 1]
    /\ UNCHANGED <<pipeVars, callVars, fbWorkers, fbBatchSize, fbPc, fbBuffer, fbKvs, fbReordered, fbHandled, fbErr>>

\* g.Wait() returns once every goroutine has: with the first error, and
\* flushBuffer returns it, or with nil, and flushBuffer releases the buffer
\* and returns.
FBWait ==
    /\ fbPc = "workers"
    /\ \A w \in DOMAIN fbChunks : fbChunks[w].state # "running"
    /\ fbPc' = "returned"
    /\ fbErr' = (\E w \in DOMAIN fbChunks : fbChunks[w].state = "failed")
    /\ IF fbErr'
       THEN UNCHANGED <<fbBuffer, bufferPool>>
       ELSE /\ fbBuffer' = [fbBuffer EXCEPT !.b = reset(@)]
            /\ bufferPool' = releaseBuffer(bufferPool, fbBuffer.id, fbBuffer.b)
    /\ UNCHANGED <<procVars, chanVars, subVars, consumeVars, flushVars, histVars, nBuffers,
                   callVars, fbWorkers, fbBatchSize, fbKvs, fbReordered, fbChunks, fbHandled>>

FBNext ==
    \/ FBStart
    \/ \E w \in 1..MaxKVs : FBHandleBatchOk(w)
    \/ \E w \in 1..MaxKVs : FBHandleBatchErr(w)
    \/ FBWait


\* ------------------------------------------------- pipeline: data types

\* A nil error, and the errors the three goroutines wrap.
NoErr == "nil"
ErrStart == "start"
ErrSubscription == "subscription"
ErrConsume == "consume events"
ErrFlushLoop == "flush loop"

\* shouldFlushOnKVSize as it would be without the test kvBufMax > 0.
shouldFlushOnKVSizeAnyLimit(b, kvBufMax, kvBufLenTarget) ==
    IF b.curKVBatchSize >= kvBufMax THEN <<TRUE, TRUE>>
    ELSE IF Len(b.curKVBatch) >= kvBufLenTarget THEN <<TRUE, FALSE>>
    ELSE <<FALSE, FALSE>>

\* ingestionBuffer.shouldFlushOnKVSize: <<shouldFlush, mustFlush>>.
shouldFlushOnKVSize(b, kvBufMax, kvBufLenTarget) ==
    IF kvBufMax > 0 /\ b.curKVBatchSize >= kvBufMax THEN <<TRUE, TRUE>>
    ELSE IF Len(b.curKVBatch) >= kvBufLenTarget THEN <<TRUE, FALSE>>
    ELSE <<FALSE, FALSE>>

\* The spans tracked by the processor (spec.PartitionSpec.Spans), each atomic.
Spans == {1, 2}

\* span.MakeFrontierAt(PreviousReplicatedTimestamp = 0, spans...)
MakeFrontier == [sp \in Spans |-> 0]

\* span.Frontier.Forward: a span's timestamp only moves up.
Forward(f, sp, ts) == [f EXCEPT ![sp] = Max(@, ts)]

\* span.Frontier.Release: the frontier gives back its entries; it then holds
\* the empty timestamp for every span.
Release(f) == [sp \in DOMAIN f |-> 0]

\* span.Frontier.Frontier(): the least timestamp of any span.
Frontier(f) == CHOOSE t \in {f[sp] : sp \in Spans} : \A sp \in Spans : t <= f[sp]

\* Entries as it would be without the test of ts.IsEmpty().
EntriesWithEmpty(f) == {[span |-> sp, ts |-> f[sp]] : sp \in Spans}

\* The checkpoint flush builds with frontier.Entries: the spans whose
\* timestamp is not empty.
Entries(f) == {[span |-> sp, ts |-> f[sp]] : sp \in {x \in Spans : f[x] # 0}}

\* spec.InitialScanTimestamp.
InitialScanTimestamp == 1

\* hlc.Timestamp: a wall time and a logical counter.
HLC(wallTime, logical) == [WallTime |-> wallTime, Logical |-> logical]

\* hlc.Timestamp.Less and hlc.Timestamp.After.
TimestampLess(a, b) ==
    a.WallTime < b.WallTime \/ (a.WallTime = b.WallTime /\ a.Logical < b.Logical)
TimestampAfter(a, b) ==
    a.WallTime > b.WallTime \/ (a.WallTime = b.WallTime /\ a.Logical > b.Logical)

\* QuantizeTimestamp as it would be if it rounded the wall time up.
QuantizeTimestampCeil(t, d, initialScan) ==
    IF d > 0 /\ TimestampAfter(t, initialScan) /\ t.WallTime % d # 0
    THEN HLC(t.WallTime + d - (t.WallTime % d), 0)
    ELSE t

\* The body of the loop of bufferCheckpoint before Forward: the timestamp
\* forwarded for the resolved timestamp t under granularity d.
QuantizeTimestamp(t, d, initialScan) ==
    IF d > 0 /\ TimestampAfter(t, initialScan)
    THEN HLC(t.WallTime - (t.WallTime % d), 0)
    ELSE t

\* The same on the timestamps of the pipeline, whose logical part is 0.
Quantize(ts, d) ==
    QuantizeTimestamp(HLC(ts, 0), d, HLC(InitialScanTimestamp, 0)).WallTime

RECURSIVE bufferCheckpointLoopAssign(_, _, _)
\* bufferCheckpointLoop as it would be if it stored the resolved timestamp in
\* the frontier instead of forwarding the frontier to it.
bufferCheckpointLoopAssign(f, resolvedSpans, d) ==
    IF resolvedSpans = <<>> THEN f
    ELSE bufferCheckpointLoopAssign(
             [f EXCEPT ![Head(resolvedSpans).span] = Quantize(Head(resolvedSpans).ts, d)],
             Tail(resolvedSpans), d)

RECURSIVE bufferCheckpointLoop(_, _, _)
\* The loop of bufferCheckpoint over the resolved spans of the event.
bufferCheckpointLoop(f, resolvedSpans, d) ==
    IF resolvedSpans = <<>> THEN f
    ELSE bufferCheckpointLoop(
             Forward(f, Head(resolvedSpans).span, Quantize(Head(resolvedSpans).ts, d)),
             Tail(resolvedSpans), d)

\* sendError as it would be if a later error replaced the pending one.
sendErrorKeepLast(ch, err) == IF err = NoErr THEN ch ELSE <<err>>

\* sendError: nothing is sent for a nil error; an error is buffered when errCh
\* is empty and dropped otherwise.
sendError(ch, err) ==
    IF err = NoErr THEN ch
    ELSE IF Len(ch) = 0 THEN <<err>>
    ELSE ch

\* ------------------------------------------------- pipeline: inputs

\* KV events the subscription delivers in the pipeline: one mutation of row 1
\* or of row 2, or two mutations of row 1 with the newer one first.
KVEvents ==
    {[type |-> "KV", resolved |-> <<>>, kvs |-> kvs] :
        kvs \in {<<[key |-> [row |-> 1, fam |-> 1], ts |-> 2]>>,
                 <<[key |-> [row |-> 2, fam |-> 1], ts |-> 1]>>,
                 <<[key |-> [row |-> 1, fam |-> 1], ts |-> 2],
                   [key |-> [row |-> 1, fam |-> 0], ts |-> 1]>>}}

\* Resolved timestamps of checkpoint events.
ResolvedTimestamps == {3}

CheckpointEvents ==
    {[type |-> "Checkpoint", kvs |-> <<>>, resolved |-> <<[span |-> sp, ts |-> t]>>] :
        sp \in Spans, t \in ResolvedTimestamps}

OtherEvents ==
    {[type |-> ty, kvs |-> <<>>, resolved |-> <<>>] :
        ty \in {"SSTable", "DeleteRange", "Split", "Unknown"}}

\* Events without their payload: a KV event whose GetKVs() is nil or empty,
\* and a checkpoint event whose GetResolvedSpans() is nil.
MalformedEvents ==
    {[type |-> ty, kvs |-> <<>>, resolved |-> <<>>] : ty \in {"KV", "Checkpoint"}}

Events == KVEvents \cup CheckpointEvents \cup OtherEvents

\* Values of the settings read by the pipeline.
KVBufMaxes == {0, 5}         \* logical_replication.consumer.kv_buffer_size
PipeBatchSizes == {0, 1}     \* logical_replication.consumer.batch_size
KVBufLenTargets == {1, 2}      \* logical_replication.consumer.kv_buffer_target_length
Granularities == {0, 2}      \* logical_replication.consumer.timestamp_granularity

\* ------------------------------------------------- pipeline: construction

\* flushBuffer is not running.
NoChunks == [chunks |-> <<>>, chunkStart |-> 0]

\* No flushableBuffer.
NoUnit == [buffer |-> NewIngestionBuffer, id |-> 0, checkpoint |-> {}, frontier |-> 0, seq |-> 0, upto |-> 0]

\* The processor as newLogicalReplicationWriterProcessor returns it.
PipeInit ==
    /\ State = "new" /\ trailingErr = NoErr /\ Closed = FALSE /\ closePc = "idle"
    /\ stopCh = "open" /\ subscriptionCtx = "live"
    /\ flushCh = "open" /\ checkpointCh = "open" /\ errCh = <<>>
    /\ flushInProgress = FALSE
    /\ subPc = "idle" /\ eventCh = "open" /\ nEvents = 0
    /\ consumePc = "idle" /\ afterFlush = "select"
    /\ bufferPool = {} /\ nBuffers = 1
    /\ buffer = NewIngestionBuffer /\ bufferId = nBuffers
    /\ frontier = MakeFrontier
    /\ lastFlushTime = 0 /\ lastFlushFrontier = 0
    /\ nTicks = 0
    /\ offered = NoUnit
    /\ flushPc = "idle" /\ bufferToFlush = NoUnit /\ batchSize = 0 /\ flushChunks = NoChunks
    /\ nRecv = 0 /\ nFlushes = 0 /\ applied = {} /\ delivered = <<>>
    /\ failed = {} /\ failedUnits = {} /\ rowsAtBadEvent = 0 /\ sent = <<>> /\ called = "none" /\ malformed = "none"
    /\ handled = "none" /\ nCloses = 0

\* Start: the stream client and the subscription are created and the three
\* goroutines are launched.
StartOk ==
    /\ State = "new"
    /\ State' = "running"
    /\ subPc' = "running" /\ consumePc' = "select" /\ flushPc' = "recv"
    /\ UNCHANGED <<fbVars, callVars, poolVars, trailingErr, Closed, closePc, stopCh, subscriptionCtx, chanVars,
                   eventCh, nEvents, afterFlush, buffer, bufferId, frontier, lastFlushTime,
                   lastFlushFrontier, nTicks, offered, bufferToFlush, batchSize, flushChunks, histVars>>

\* Start when NewStreamClient or Subscribe fails: MoveToDraining with the
\* error, and no goroutine is launched.
StartFail ==
    /\ State = "new"
    /\ State' = "draining" /\ trailingErr' = ErrStart
    /\ UNCHANGED <<fbVars, callVars, poolVars, Closed, closePc, stopCh, subscriptionCtx, chanVars, subVars,
                   consumeVars, flushVars, histVars>>

\* ------------------------------------------------- pipeline: subscription

\* sub.Subscribe returns, with an error or without: the subscription closes
\* its event channel before it returns.
SubReturn(err) ==
    /\ subPc = "running"
    /\ eventCh' = "closed"
    /\ subPc' = IF err = NoErr THEN "done" ELSE "returnedErr"
    /\ failed' = IF err = NoErr THEN failed ELSE failed \cup {ErrSubscription}
    /\ UNCHANGED <<fbVars, callVars, poolVars, procVars, chanVars, nEvents, consumeVars, flushVars,
                   nRecv, nFlushes, applied, delivered, failedUnits, rowsAtBadEvent, sent, called, handled, nCloses, malformed>>

\* The subscription goroutine reports the error of Subscribe.
SubSendError ==
    /\ subPc = "returnedErr"
    /\ errCh' = sendError(errCh, ErrSubscription)
    /\ sent' = Append(sent, ErrSubscription)
    /\ subPc' = "done"
    /\ UNCHANGED <<fbVars, callVars, poolVars, procVars, flushCh, checkpointCh, flushInProgress, eventCh, nEvents,
                   consumeVars, flushVars, nRecv, nFlushes, applied, delivered,
                   failed, failedUnits, rowsAtBadEvent, called, handled, nCloses, malformed>>

\* ------------------------------------------------- pipeline: flush coordinator

\* flush up to its select: the buffer is swapped for a fresh one and the old
\* one is paired with a snapshot of the frontier.  n is the number of mutations
\* received when the snapshot is taken.
FlushBegin(buf, f, n, cont) ==
    /\ \E g \in getBuffer(bufferPool, nBuffers) :
          /\ buffer' = g.b /\ bufferId' = g.id
          /\ bufferPool' = bufferPool \ {g}
          /\ nBuffers' = Max(nBuffers, g.id)
    /\ offered' = [buffer |-> buf, id |-> bufferId, checkpoint |-> Entries(f),
                   frontier |-> Frontier(f), seq |-> nFlushes + 1, upto |-> n]
    /\ nFlushes' = nFlushes + 1
    /\ consumePc' = "flush"
    /\ afterFlush' = cont

\* No flush: consumeEvents goes on with buffer buf.
FlushSkip(buf, cont) ==
    /\ buffer' = buf /\ bufferId' = bufferId
    /\ consumePc' = cont
    /\ UNCHANGED <<fbVars, callVars, poolVars, offered, nFlushes, afterFlush>>

\* maybeFlushReturns as it would be without the check of the buffer and the
\* frontier.
maybeFlushReturnsInProgressOnly(inProgress, buf, f, lastFrontier) == inProgress

\* maybeFlushReturns as it would be without the load of flushInProgress.
maybeFlushReturnsIgnoringFlag(inProgress, buf, f, lastFrontier) ==
    Len(buf.curKVBatch) = 0 /\ Frontier(f) <= lastFrontier

\* The two early returns of maybeFlush.
maybeFlushReturns(inProgress, buf, f, lastFrontier) ==
    \/ inProgress
    \/ (Len(buf.curKVBatch) = 0 /\ Frontier(f) <= lastFrontier)

\* maybeFlush
maybeFlush(buf, f, n, cont) ==
    /\ called' = "maybeFlush"
    /\ IF maybeFlushReturns(flushInProgress, buf, f, lastFlushFrontier)
       THEN FlushSkip(buf, cont)
       ELSE FlushBegin(buf, f, n, cont)

\* The end of handleEvent: the thresholds, then flush, maybeFlush or nothing.
handleEventFlush(buf, f, n, kvBufMax, kvBufLenTarget) ==
    LET sf == shouldFlushOnKVSize(buf, kvBufMax, kvBufLenTarget)
    IN  IF sf[2] THEN called' = "flush" /\ FlushBegin(buf, f, n, "select")
        ELSE IF sf[1] THEN maybeFlush(buf, f, n, "select")
        ELSE called' = "none" /\ FlushSkip(buf, "select")

\* ------------------------------------------------- pipeline: consumeEvents

\* consumeEventsAfterHandleEvent as it would be if the error of handleEvent
\* were dropped.
consumeEventsAfterHandleEventIgnoringErr(err) == "select"

\* consumeEvents after handleEvent: it returns the error, or goes round its loop.
consumeEventsAfterHandleEvent(err) == IF err THEN "failed" ELSE "select"

\* handleEventSwitch as it would be if an SSTable event were only logged, as
\* a split event is.
handleEventSwitchSSTableLogged(type) ==
    IF type \in {"KV", "Checkpoint", "Split", "SSTable"} THEN "continue" ELSE "error"

\* The switch of handleEvent on event.Type(): the KV, checkpoint and split
\* arms fall through to the flush thresholds, the SSTable / delete-range arm
\* and the default arm return an error.
handleEventSwitch(type) ==
    IF type \in {"KV", "Checkpoint", "Split"} THEN "continue" ELSE "error"

\* consumeEvents receives an event that handleEvent accepts: a KV event, a
\* checkpoint event or a split event.
ConsumeEvent(event, kvBufMax, kvBufLenTarget, d) ==
    /\ consumePc = "select"
    /\ subPc = "running" /\ eventCh = "open"
    /\ nEvents < MaxEvents
    /\ handleEventSwitch(event.type) = "continue"
    /\ nEvents' = nEvents + 1
    /\ nTicks' = 0
    /\ handled' = event.type
    /\ LET buf == IF event.type = "KV" THEN bufferKVsLoop(buffer, event.kvs, nRecv)
                  ELSE buffer
           f == IF event.type = "Checkpoint"
                THEN bufferCheckpointLoop(frontier, event.resolved, d)
                ELSE frontier
           n == nRecv + Len(event.kvs)
       IN  /\ frontier' = f
           /\ nRecv' = n
           /\ handleEventFlush(buf, f, n, kvBufMax, kvBufLenTarget)
    /\ UNCHANGED <<fbVars, callVars, procVars, chanVars, subPc, eventCh, lastFlushTime, lastFlushFrontier,
                   flushVars, applied, delivered, failed, failedUnits, rowsAtBadEvent, sent, nCloses, malformed>>

\* consumeEvents receives an SSTable, delete-range or unknown event, or a
\* checkpoint event with nil resolved spans: handleEvent returns an error and
\* consumeEvents returns it.
ConsumeBadEvent(event) ==
    /\ consumePc = "select"
    /\ subPc = "running" /\ eventCh = "open"
    /\ nEvents < MaxEvents
    /\ \/ handleEventSwitch(event.type) = "error"
       \/ event.type = "Checkpoint" /\ event.resolved = <<>>
    /\ malformed' = IF event.type = "Checkpoint" THEN "Checkpoint" ELSE malformed
    /\ nEvents' = nEvents + 1
    /\ nTicks' = 0
    /\ consumePc' = consumeEventsAfterHandleEvent(TRUE)
    /\ failed' = failed \cup {ErrConsume}
    /\ rowsAtBadEvent' = Len(delivered)
    /\ called' = "none"
    /\ handled' = event.type
    /\ UNCHANGED <<fbVars, callVars, poolVars, procVars, chanVars, subPc, eventCh, afterFlush, buffer, bufferId, frontier,
                   lastFlushTime, lastFlushFrontier, offered, flushVars,
                   nRecv, nFlushes, applied, delivered, failedUnits, sent, nCloses>>

\* consumeEvents receives a KV event with no mutation: handleEvent indexes
\* event.GetKVs()[0] for the admit-latency metric before bufferKVs looks at the
\* list, and the goroutine panics.  Nothing recovers the panic: the process
\* dies, and with it every goroutine and the caller of Next and close.
ConsumePanic(event) ==
    /\ consumePc = "select"
    /\ subPc = "running" /\ eventCh = "open"
    /\ nEvents < MaxEvents
    /\ event.type = "KV" /\ Len(event.kvs) = 0
    /\ nEvents' = nEvents + 1
    /\ nTicks' = 0
    /\ malformed' = "KV"
    /\ called' = "none"
    /\ handled' = event.type
    /\ consumePc' = "panicked"
    /\ subPc' = "crashed" /\ flushPc' = "crashed" /\ closePc' = "crashed"
    /\ UNCHANGED <<fbVars, callVars, poolVars, State, trailingErr, Closed, stopCh, subscriptionCtx,
                   chanVars, eventCh, afterFlush, buffer, bufferId, frontier, lastFlushTime,
                   lastFlushFrontier, offered, bufferToFlush, batchSize, flushChunks,
                   nRecv, nFlushes, applied, delivered, failed, failedUnits, rowsAtBadEvent,
                   sent, nCloses>>

\* consumeEvents finds the event channel closed: flush(flushOnClose), then return.
ConsumeClosed ==
    /\ consumePc = "select"
    /\ eventCh = "closed"
    /\ called' = "flush"
    /\ handled' = "none"
    /\ FlushBegin(buffer, frontier, nRecv, "exit")
    /\ UNCHANGED <<fbVars, callVars, procVars, chanVars, subVars, frontier, lastFlushTime, lastFlushFrontier,
                   nTicks, flushVars, nRecv, applied, delivered, failed, failedUnits, rowsAtBadEvent, sent, nCloses, malformed>>

\* maxFlushRateTimer fires.  elapsed says whether minFlushInterval has passed
\* since lastFlushTime, which it has when lastFlushTime is the zero time.
ConsumeTimer(elapsed) ==
    /\ consumePc = "select"
    /\ nTicks < MaxTicks
    /\ lastFlushTime = 0 => elapsed
    /\ nTicks' = nTicks + 1
    /\ handled' = "none"
    /\ IF elapsed THEN maybeFlush(buffer, frontier, nRecv, "select")
       ELSE called' = "none" /\ FlushSkip(buffer, "select")
    /\ UNCHANGED <<fbVars, callVars, procVars, chanVars, subVars, frontier, lastFlushTime, lastFlushFrontier,
                   flushVars, nRecv, applied, delivered, failed, failedUnits, rowsAtBadEvent, sent, nCloses, malformed>>

\* flushChReady as it would be if flushCh had room for a unit whatever
\* flushLoop is doing.
flushChBuffered(pc) == pc \in {"recv", "store", "flushBuffer", "send", "clear"}

\* flushCh has no buffer (make(chan flushableBuffer)): a send on it goes
\* through when flushLoop is at its receive.
flushChReady(pc) == pc = "recv"

\* flushRecords as it would be if flush recorded the flush on both branches of
\* its select.
flushRecordsAlways(accepted, last, this) == this

\* The two branches of the select of flush, for lastFlushFrontier and for
\* lastFlushTime: the new value is recorded when flushLoop accepted the unit,
\* and the last one stays when stopCh was observed.
flushRecords(accepted, last, this) == IF accepted THEN this ELSE last

\* The select of flush when flushLoop receives: the unit is handed off, and
\* flush records lastFlushFrontier and lastFlushTime and returns.
FlushHandoff ==
    /\ consumePc = "flush"
    /\ flushChReady(flushPc)
    /\ bufferToFlush' = offered
    /\ flushPc' = "store"
    /\ lastFlushFrontier' = flushRecords(TRUE, lastFlushFrontier, offered.frontier)
    /\ lastFlushTime' = flushRecords(TRUE, lastFlushTime, offered.seq)
    /\ offered' = NoUnit
    /\ consumePc' = afterFlush
    /\ UNCHANGED <<fbVars, callVars, poolVars, procVars, chanVars, subVars, afterFlush, buffer, bufferId, frontier, nTicks,
                   batchSize, flushChunks, histVars>>

\* The select of flush when stopCh is closed: flush returns nil and the unit
\* is dropped.
FlushAbandon ==
    /\ consumePc = "flush"
    /\ stopCh = "closed"
    /\ lastFlushFrontier' = flushRecords(FALSE, lastFlushFrontier, offered.frontier)
    /\ lastFlushTime' = flushRecords(FALSE, lastFlushTime, offered.seq)
    /\ offered' = NoUnit
    /\ consumePc' = afterFlush
    /\ UNCHANGED <<fbVars, callVars, poolVars, procVars, chanVars, subVars, afterFlush, buffer, bufferId, frontier,
                   nTicks, flushVars, histVars>>

\* The consumeEvents goroutine reports the error consumeEvents returned.
ConsumeSendError ==
    /\ consumePc = "failed"
    /\ errCh' = sendError(errCh, ErrConsume)
    /\ sent' = Append(sent, ErrConsume)
    /\ consumePc' = "exit"
    /\ UNCHANGED <<fbVars, callVars, poolVars, procVars, flushCh, checkpointCh, flushInProgress, subVars, afterFlush,
                   buffer, bufferId, frontier, lastFlushTime, lastFlushFrontier, nTicks, offered,
                   flushVars, nRecv, nFlushes, applied, delivered,
                   failed, failedUnits, rowsAtBadEvent, called, handled, nCloses, malformed>>

\* The deferred close(lrw.flushCh) of the consumeEvents goroutine.
ConsumeExit ==
    /\ consumePc = "exit"
    /\ flushCh' = "closed"
    /\ consumePc' = "done"
    /\ UNCHANGED <<fbVars, callVars, poolVars, procVars, checkpointCh, errCh, flushInProgress, subVars, afterFlush,
                   buffer, bufferId, frontier, lastFlushTime, lastFlushFrontier, nTicks, offered,
                   flushVars, histVars>>

\* ------------------------------------------------- pipeline: flushLoop

\* flushLoop finds flushCh closed and returns nil; the goroutine's deferred
\* close(lrw.checkpointCh) follows.
FlushLoopClosed ==
    /\ flushPc = "recv"
    /\ flushCh = "closed"
    /\ flushPc' = "done"
    /\ checkpointCh' = "closed"
    /\ UNCHANGED <<fbVars, callVars, poolVars, procVars, flushCh, errCh, flushInProgress, subVars, consumeVars,
                   bufferToFlush, batchSize, flushChunks, histVars>>

\* The worker goroutines flushBuffer launches for the chunks: each starts at
\* its batchStart and has returned no error.
GoWorkers(chunks) ==
    [w \in DOMAIN chunks |->
        [batchStart |-> chunks[w].batchStart, chunkEnd |-> chunks[w].chunkEnd, err |-> FALSE]]

\* flushInProgress.Store(true), and flushBuffer up to g.Wait(): on a buffer
\* that is not empty it reads the batch size, sorts the buffer in place, cuts
\* it into chunks and launches a worker for each; it panics when the chunks
\* do not cover the buffer.
FlushLoopStore(bs) ==
    /\ flushPc = "store"
    /\ Len(bufferToFlush.buffer.curKVBatch) = 0 => bs = 0
    /\ flushInProgress' = TRUE
    /\ batchSize' = bs
    /\ \E kvs \in {SortFunc(bufferToFlush.buffer.curKVBatch)} :
       \E c \in {Chunking(kvs, maxWriterWorkers, bs)} :
           /\ bufferToFlush' = [bufferToFlush EXCEPT !.buffer.curKVBatch = kvs]
           /\ flushChunks' = IF Len(kvs) = 0 THEN NoChunks
                             ELSE [chunks |-> GoWorkers(c.chunks), chunkStart |-> c.chunkStart]
           /\ flushPc' = IF Len(kvs) > 0 /\ c.chunkStart # Len(kvs) THEN "panicked"
                         ELSE "flushBuffer"
    /\ UNCHANGED <<fbVars, callVars, poolVars, procVars, flushCh, checkpointCh, errCh, subVars, consumeVars,
                   histVars>>

\* A worker goroutine is in its sub-batch loop: for batchStart < chunkEnd, and
\* no HandleBatch call of it has failed.
WorkerRunning(c) == ~c.err /\ c.batchStart < c.chunkEnd

\* The numbers of the mutations in kvs[batchStart:batchEnd].
HandledIds(kvs, batchStart, batchEnd) ==
    {At(kvs, pos).id : pos \in batchStart..(batchEnd - 1)}

\* One iteration of the sub-batch loop of worker w whose HandleBatch call, on
\* a sub-batch that is not empty, returns nil: the mutations of the sub-batch
\* are applied and batchStart moves to batchEnd.
FlushHandleBatchOk(w) ==
    /\ flushPc = "flushBuffer"
    /\ w \in DOMAIN flushChunks.chunks
    /\ WorkerRunning(flushChunks.chunks[w])
    /\ LET c == flushChunks.chunks[w]
           batchEnd == BatchEnd(c.batchStart, batchSize, c.chunkEnd)
       IN  /\ batchEnd > c.batchStart
           /\ applied' = applied \cup HandledIds(bufferToFlush.buffer.curKVBatch,
                                                  c.batchStart, batchEnd)
           /\ flushChunks' = [flushChunks EXCEPT !.chunks[w].batchStart = batchEnd]
    /\ UNCHANGED <<fbVars, callVars, poolVars, procVars, chanVars, subVars, consumeVars,
                   flushPc, bufferToFlush, batchSize,
                   nRecv, nFlushes, delivered, failed, failedUnits, rowsAtBadEvent, sent, called, handled, nCloses, malformed>>

\* One iteration whose HandleBatch call fails: the goroutine of worker w
\* returns the error.
FlushHandleBatchErr(w) ==
    /\ flushPc \in {"flushBuffer", "spinning"}
    /\ w \in DOMAIN flushChunks.chunks
    /\ WorkerRunning(flushChunks.chunks[w])
    /\ flushChunks' = [flushChunks EXCEPT !.chunks[w].err = TRUE]
    /\ UNCHANGED <<fbVars, callVars, poolVars, procVars, chanVars, subVars, consumeVars,
                   flushPc, bufferToFlush, batchSize, histVars>>

\* g.Wait() returns: every worker goroutine has returned.
WorkersEnded(chunks) == \A w \in DOMAIN chunks : ~WorkerRunning(chunks[w])

\* WorkersFinished as it would be if flushBuffer returned nil without regard to
\* the workers' errors.
WorkersFinishedUnchecked(chunks) == TRUE

\* g.Wait() returns nil: no worker returned an error.
WorkersFinished(chunks) == \A w \in DOMAIN chunks : ~chunks[w].err

\* flushLoopAfterFlushBuffer as it would be if the error of flushBuffer were
\* dropped.
flushLoopAfterFlushBufferIgnoringErr(err) == "send"

\* flushLoop after flushBuffer: it returns the error, or goes on to offer the
\* checkpoint on checkpointCh.
flushLoopAfterFlushBuffer(err) == IF err THEN "failed" ELSE "send"

\* flushBuffer returns the checkpoint without error: at once on an empty
\* buffer, else when g.Wait() has returned nil; the buffer is released.
FlushBufferOk ==
    /\ flushPc = "flushBuffer"
    /\ WorkersEnded(flushChunks.chunks)
    /\ WorkersFinished(flushChunks.chunks)
    /\ flushPc' = flushLoopAfterFlushBuffer(FALSE)
    /\ bufferToFlush' = [bufferToFlush EXCEPT !.buffer = reset(@)]
    /\ bufferPool' = releaseBuffer(bufferPool, bufferToFlush.id, bufferToFlush.buffer)
    /\ nBuffers' = nBuffers
    /\ flushChunks' = NoChunks
    /\ batchSize' = 0
    /\ UNCHANGED <<fbVars, callVars, procVars, chanVars, subVars, consumeVars, histVars>>

\* A worker of flushBuffer calls HandleBatch on an empty sub-batch: its
\* batchEnd is its batchStart.
FlushBufferSpin ==
    /\ flushPc = "flushBuffer"
    /\ \E w \in DOMAIN flushChunks.chunks :
          /\ WorkerRunning(flushChunks.chunks[w])
          /\ BatchEnd(flushChunks.chunks[w].batchStart, batchSize, flushChunks.chunks[w].chunkEnd)
                 = flushChunks.chunks[w].batchStart
    /\ flushPc' = "spinning"
    /\ UNCHANGED <<fbVars, callVars, poolVars, procVars, chanVars, subVars, consumeVars, bufferToFlush, batchSize, flushChunks,
                   histVars>>

\* That HandleBatch call returns nil: batchStart becomes batchEnd, which it
\* was, and the worker's loop goes round.
FlushBufferSpinOn ==
    /\ flushPc = "spinning"
    /\ flushPc' = "flushBuffer"
    /\ UNCHANGED <<fbVars, callVars, poolVars, procVars, chanVars, subVars, consumeVars, bufferToFlush, batchSize, flushChunks,
                   histVars>>

\* flushBuffer returns an error: g.Wait() has returned the error of a worker
\* whose HandleBatch call failed.  The buffer is not released.  flushLoop
\* returns the error.
FlushBufferErr ==
    /\ flushPc \in {"flushBuffer", "spinning"}
    /\ WorkersEnded(flushChunks.chunks)
    /\ ~WorkersFinished(flushChunks.chunks)
    /\ flushPc' = flushLoopAfterFlushBuffer(TRUE)
    /\ failed' = failed \cup {ErrFlushLoop}
    /\ failedUnits' = failedUnits \cup {bufferToFlush.seq}
    /\ flushChunks' = NoChunks
    /\ batchSize' = 0
    /\ UNCHANGED <<fbVars, callVars, poolVars, procVars, chanVars, subVars, consumeVars, bufferToFlush,
                   nRecv, nFlushes, applied, delivered, rowsAtBadEvent, sent, called, handled, nCloses, malformed>>

\* The flushLoop goroutine reports the error flushLoop returned.
FlushLoopSendError ==
    /\ flushPc = "failed"
    /\ errCh' = sendError(errCh, ErrFlushLoop)
    /\ sent' = Append(sent, ErrFlushLoop)
    /\ flushPc' = "exit"
    /\ UNCHANGED <<fbVars, callVars, poolVars, procVars, flushCh, checkpointCh, flushInProgress, subVars, consumeVars,
                   bufferToFlush, batchSize, flushChunks, nRecv, nFlushes, applied, delivered,
                   failed, failedUnits, rowsAtBadEvent, called, handled, nCloses, malformed>>

\* The deferred close(lrw.checkpointCh) after flushLoop returned an error.
FlushLoopExit ==
    /\ flushPc = "exit"
    /\ checkpointCh' = "closed"
    /\ flushPc' = "done"
    /\ UNCHANGED <<fbVars, callVars, poolVars, procVars, flushCh, errCh, flushInProgress, subVars, consumeVars,
                   bufferToFlush, batchSize, flushChunks, histVars>>

\* The select of flushLoop when stopCh is closed: return nil, and the deferred
\* close(lrw.checkpointCh).
FlushLoopStopped ==
    /\ flushPc = "send"
    /\ stopCh = "closed"
    /\ flushPc' = "done"
    /\ checkpointCh' = "closed"
    /\ UNCHANGED <<fbVars, callVars, poolVars, procVars, flushCh, errCh, flushInProgress, subVars, consumeVars,
                   bufferToFlush, batchSize, flushChunks, histVars>>

\* flushInProgress.Store(false), after the checkpoint was delivered.
FlushLoopClear ==
    /\ flushPc = "clear"
    /\ flushInProgress' = FALSE
    /\ flushPc' = "recv"
    /\ UNCHANGED <<fbVars, callVars, poolVars, procVars, flushCh, checkpointCh, errCh, subVars, consumeVars,
                   bufferToFlush, batchSize, flushChunks, histVars>>

\* ------------------------------------------------- pipeline: Next and close

\* Next is called by the consumer of the processor, which also calls
\* ConsumerClosed: never while close is running, nor after it.
NextCallable == closePc = "idle" /\ ~Closed

\* The first select of Next receives a checkpoint from flushLoop and returns
\* it as a row.
NextCheckpoint ==
    /\ NextCallable /\ State = "running"
    /\ flushPc = "send"
    /\ delivered' = Append(delivered, [seq |-> bufferToFlush.seq, upto |-> bufferToFlush.upto,
                                       checkpoint |-> bufferToFlush.checkpoint])
    /\ flushPc' = "clear"
    /\ UNCHANGED <<fbVars, callVars, poolVars, procVars, chanVars, subVars, consumeVars, bufferToFlush, batchSize, flushChunks,
                   nRecv, nFlushes, applied, failed, failedUnits, rowsAtBadEvent, sent, called, handled, nCloses, malformed>>

\* The first select of Next receives an error from errCh.
NextErr ==
    /\ NextCallable /\ State = "running"
    /\ Len(errCh) > 0
    /\ State' = "draining"
    /\ trailingErr' = Head(errCh)
    /\ errCh' = Tail(errCh)
    /\ UNCHANGED <<fbVars, callVars, poolVars, Closed, closePc, stopCh, subscriptionCtx, flushCh, checkpointCh,
                   flushInProgress, subVars, consumeVars, flushVars,
                   nRecv, nFlushes, applied, delivered, failed, failedUnits, rowsAtBadEvent, sent, called, handled, nCloses, malformed>>

\* NextOnClosed as it would be without the second select.
NextOnClosedNil(ch) == NoErr

\* The second select of Next: the error Next drains with once it has found
\* checkpointCh closed.
NextOnClosed(ch) == IF Len(ch) > 0 THEN Head(ch) ELSE NoErr

\* The first select of Next finds checkpointCh closed.
NextClosed ==
    /\ NextCallable /\ State = "running"
    /\ checkpointCh = "closed"
    /\ State' = "draining"
    /\ trailingErr' = NextOnClosed(errCh)
    /\ errCh' = IF Len(errCh) > 0 THEN Tail(errCh) ELSE errCh
    /\ UNCHANGED <<fbVars, callVars, poolVars, Closed, closePc, stopCh, subscriptionCtx, flushCh, checkpointCh,
                   flushInProgress, subVars, consumeVars, flushVars,
                   nRecv, nFlushes, applied, delivered, failed, failedUnits, rowsAtBadEvent, sent, called, handled, nCloses, malformed>>

\* Next when the processor is not running: DrainHelper, no row.
NextDrained ==
    /\ closePc = "idle"
    /\ State = "draining"
    /\ UNCHANGED <<fbVars, callVars, poolVars, pipeVars>>

\* closeReturnsEarly as it would be without the test of lrw.Closed.
closeReturnsEarlyNever(closed) == FALSE

\* The early return of close(): if lrw.Closed { return }.
closeReturnsEarly(closed) == closed

\* close(ch) of Go: a channel is closed once; closing it again panics.
closeChan(ch) == IF ch = "open" THEN "closed" ELSE "panic"

\* ProcessorBase.InternalClose: the value it leaves in lrw.Closed.
InternalClose == TRUE

\* close() up to workerGroup.Wait: stopCh is closed and the subscription's
\* context is canceled.  Called by ConsumerClosed and by the trailing-metadata
\* callback, both on the goroutine of the consumer of the processor.  A panic
\* on close(lrw.stopCh) ends the process.
CloseBegin ==
    /\ State # "new"
    /\ closePc = "idle" /\ ~closeReturnsEarly(Closed)
    /\ nCloses < MaxCloses
    /\ nCloses' = nCloses + 1
    /\ stopCh' = closeChan(stopCh)
    /\ IF closeChan(stopCh) = "panic"
       THEN /\ closePc' = "panicked"
            /\ subPc' = "crashed" /\ consumePc' = "crashed" /\ flushPc' = "crashed"
            /\ UNCHANGED subscriptionCtx
       ELSE /\ subscriptionCtx' = IF subPc = "idle" THEN subscriptionCtx ELSE "canceled"
            /\ closePc' = "wait"
            /\ UNCHANGED <<subPc, consumePc, flushPc>>
    /\ UNCHANGED <<fbVars, callVars, poolVars, State, trailingErr, Closed, chanVars, eventCh, nEvents,
                   afterFlush, buffer, bufferId, frontier, lastFlushTime, lastFlushFrontier,
                   nTicks, offered, bufferToFlush, batchSize, flushChunks,
                   nRecv, nFlushes, applied, delivered, failed, failedUnits, rowsAtBadEvent,
                   sent, called, handled, malformed>>

\* close() on a processor that is closed already: it returns at once.
CloseReturn ==
    /\ State # "new"
    /\ closePc = "idle" /\ closeReturnsEarly(Closed)
    /\ nCloses < MaxCloses
    /\ nCloses' = nCloses + 1
    /\ UNCHANGED <<fbVars, callVars, poolVars, procVars, chanVars, subVars, consumeVars, flushVars,
                   nRecv, nFlushes, applied, delivered, failed, failedUnits, rowsAtBadEvent,
                   sent, called, handled, malformed>>

\* Every goroutine of the worker group has returned.
WorkersDone ==
    /\ subPc \in {"idle", "done"}
    /\ consumePc \in {"idle", "done"}
    /\ flushPc \in {"idle", "done"}

\* workerGroup.Wait returns and close finishes: InternalClose, then the
\* deferred lrw.frontier.Release().
CloseEnd ==
    /\ closePc = "wait"
    /\ WorkersDone
    /\ Closed' = InternalClose
    /\ frontier' = Release(frontier)
    /\ closePc' = "idle"
    /\ UNCHANGED <<fbVars, callVars, poolVars, State, trailingErr, stopCh, subscriptionCtx, chanVars, subVars,
                   consumePc, afterFlush, buffer, bufferId, lastFlushTime, lastFlushFrontier,
                   nTicks, offered, flushVars, histVars>>

\* ------------------------------------------------- specifications

PipeNext ==
    \/ StartOk
    \/ StartFail
    \/ \E err \in {NoErr, ErrSubscription} : SubReturn(err)
    \/ SubSendError
    \/ \E event \in Events, kvBufMax \in KVBufMaxes, kvBufLenTarget \in KVBufLenTargets,
          d \in Granularities : ConsumeEvent(event, kvBufMax, kvBufLenTarget, d)
    \/ \E event \in Events \cup MalformedEvents : ConsumeBadEvent(event)
    \/ \E event \in MalformedEvents : ConsumePanic(event)
    \/ ConsumeClosed
    \/ \E elapsed \in BOOLEAN : ConsumeTimer(elapsed)
    \/ FlushHandoff
    \/ FlushAbandon
    \/ ConsumeSendError
    \/ ConsumeExit
    \/ FlushLoopClosed
    \/ \E bs \in PipeBatchSizes : FlushLoopStore(bs)
    \/ \E w \in 1..maxWriterWorkers : FlushHandleBatchOk(w)
    \/ \E w \in 1..maxWriterWorkers : FlushHandleBatchErr(w)
    \/ FlushBufferOk
    \/ FlushBufferSpin
    \/ FlushBufferSpinOn
    \/ FlushBufferErr
    \/ FlushLoopSendError
    \/ FlushLoopExit
    \/ FlushLoopStopped
    \/ FlushLoopClear
    \/ NextCheckpoint
    \/ NextErr
    \/ NextClosed
    \/ NextDrained
    \/ CloseBegin
    \/ CloseReturn
    \/ CloseEnd

\* The flushBuffer variables of SpecFlush, at rest in the pipeline.
FBParked ==
    /\ fbWorkers = maxWriterWorkers /\ fbBatchSize = 0 /\ fbPc = "idle"
    /\ fbBuffer = [id |-> 0, b |-> NewIngestionBuffer]
    /\ fbKvs = <<>> /\ fbReordered = FALSE /\ fbChunks = <<>>
    /\ fbHandled = <<>> /\ fbErr = FALSE

\* No function is called on its own.
CallsParked == callPc = "idle" /\ callArgs = <<>> /\ callResult = <<>>

\* The pipeline.
Init == PipeInit /\ FBParked /\ CallsParked
Next == PipeNext
Spec == Init /\ [][Next]_vars

\* sub.Subscribe returns once its context is canceled.
SubReturnOnCancel ==
    /\ subscriptionCtx = "canceled"
    /\ \E err \in {NoErr, ErrSubscription} : SubReturn(err)

\* The steps that are taken whenever they can be: those of a goroutine that
\* is not waiting for an event, the timer or a failure, a HandleBatch call
\* that returns nil on a sub-batch that is not empty, the return of g.Wait,
\* Next while the consumer of the processor keeps calling it, and the return
\* of workerGroup.Wait.
Progress ==
    \/ SubReturnOnCancel
    \/ SubSendError
    \/ ConsumeClosed
    \/ FlushHandoff
    \/ FlushAbandon
    \/ ConsumeSendError
    \/ ConsumeExit
    \/ FlushLoopClosed
    \/ \E bs \in PipeBatchSizes : FlushLoopStore(bs)
    \/ \E w \in 1..maxWriterWorkers : FlushHandleBatchOk(w)
    \/ FlushBufferOk
    \/ FlushBufferErr
    \/ FlushLoopSendError
    \/ FlushLoopExit
    \/ FlushLoopStopped
    \/ FlushLoopClear
    \/ NextCheckpoint
    \/ NextErr
    \/ NextClosed
    \/ CloseEnd

\* The sub-batch loop of a worker on empty sub-batches: each HandleBatch call
\* returns and the loop goes round.
Spinning == FlushBufferSpin \/ FlushBufferSpinOn

\* The scheduling the pipeline runs under.  Nothing obliges an event to
\* arrive, a call to fail or close() to be called.
Fairness == WF_vars(Progress) /\ WF_vars(Spinning)

\* The pipeline under that scheduling.
FairSpec == Spec /\ Fairness

\* ------------------------------------------------- SpecCalls: single calls

\* Mutations of the buffers shouldFlushOnKVSize is called on: of size 2 or 3.
CallKVs == [key : [row : {1}, fam : Families], ts : Timestamps]

\* The buffers it is called on: those addKV builds from a new buffer.
CallBuffers == {bufferKVsLoop(NewIngestionBuffer, kvs, 0) : kvs \in SeqsUpTo(CallKVs, MaxKVs)}

\* Values of logical_replication.consumer.kv_buffer_size and of
\* logical_replication.consumer.kv_buffer_target_length in those calls.
CallKVBufMaxes == {0, 3, 5, 7}
CallKVBufLenTargets == {0, 2, 3}

ShouldFlushCalls ==
    [fn : {"shouldFlushOnKVSize"}, b : CallBuffers,
     kvBufMax : CallKVBufMaxes, kvBufLenTarget : CallKVBufLenTargets]

\* Resolved timestamps, granularities (timestamp_granularity) and initial-scan
\* timestamps of the calls of bufferCheckpoint, and the timestamp the frontier
\* holds for the span before the call.
CallTimestamps == {HLC(w, l) : w \in 0..7, l \in {0, 1}}
CallGranularities == {0, 2, 5}
CallInitialScans == {HLC(0, 0), HLC(3, 0), HLC(3, 1)}
CallFrontiers == {HLC(0, 0), HLC(4, 0)}

BufferCheckpointCalls ==
    [fn : {"bufferCheckpoint"}, ts : CallTimestamps, d : CallGranularities,
     initialScan : CallInitialScans, frontier : CallFrontiers]

CallsInit ==
    /\ callPc = "call"
    /\ callArgs \in ShouldFlushCalls \cup BufferCheckpointCalls
    /\ callResult = <<>>

\* bufferCheckpoint returns, on an event with one resolved span: the
\* timestamp it forwarded and the timestamp the frontier then holds for the
\* span.
CallBufferCheckpoint ==
    /\ callPc = "call"
    /\ callArgs.fn = "bufferCheckpoint"
    /\ LET q == QuantizeTimestamp(callArgs.ts, callArgs.d, callArgs.initialScan)
       IN  callResult' = [forwarded |-> q,
                          frontier |-> IF TimestampLess(callArgs.frontier, q)
                                       THEN q ELSE callArgs.frontier]
    /\ callPc' = "returned"
    /\ UNCHANGED <<fbVars, pipeVars, callArgs>>

\* b.shouldFlushOnKVSize(ctx, sv) returns.
CallShouldFlushOnKVSize ==
    /\ callPc = "call"
    /\ callArgs.fn = "shouldFlushOnKVSize"
    /\ callResult' = shouldFlushOnKVSize(callArgs.b, callArgs.kvBufMax, callArgs.kvBufLenTarget)
    /\ callPc' = "returned"
    /\ UNCHANGED <<fbVars, pipeVars, callArgs>>

CallsNext ==
    \/ CallShouldFlushOnKVSize
    \/ CallBufferCheckpoint

\* One call of a function on every small argument.
CallsStart == CallsInit /\ PipeInit /\ FBParked
SpecCalls == CallsStart /\ [][CallsNext]_vars

\* One call of flushBuffer on every small buffer.
FlushInit == FBInit /\ PipeInit /\ CallsParked
SpecFlush == FlushInit /\ [][FBNext]_vars



\* ------------------------------------------------ claims on the pipeline

\* C1 (safety of delivered checkpoints): every checkpoint row Next has
\* returned belongs to a unit whose mutations, and those of every buffer
\* retired before it, were all handled by HandleBatch calls that returned nil;
\* the rows are those of the units 1, 2, ... in order, so no row follows a
\* unit that was abandoned on stopCh.
C1_DeliveredApplied ==
    \A i \in DOMAIN delivered :
        /\ delivered[i].seq = i
        /\ 1..delivered[i].upto \subseteq applied

\* Witness of C1: a checkpoint covering two mutations was returned, then
\* close() began, a flush was abandoned, and a later unit was handed off,
\* flushed, and now waits on checkpointCh.
C1_Witness ==
    /\ Len(delivered) >= 1
    /\ delivered[Len(delivered)].upto >= 2
    /\ stopCh = "closed"
    /\ flushPc = "send"
    /\ bufferToFlush.seq > Len(delivered) + 1

\* C2 (no checkpoint after a failed flush): when flushBuffer returned an error
\* on a unit, neither the checkpoint of that unit nor that of a later unit is
\* received from checkpointCh.
C2_NoCheckpointAfterError ==
    \A u \in failedUnits : \A i \in DOMAIN delivered : delivered[i].seq < u

\* Witness of C2: flushBuffer failed on the second unit after one of its
\* HandleBatch calls had succeeded, the first unit's checkpoint had been
\* returned, and Next drained with the flush loop's error.
C2_Witness ==
    /\ failedUnits = {2}
    /\ Len(delivered) = 1
    /\ applied # {} /\ applied # 1..nRecv
    /\ State = "draining" /\ trailingErr = ErrFlushLoop

\* C3 (fatal errors are surfaced): Next never moves to draining with a nil
\* error in a run in which consumeEvents, flushLoop or the subscription
\* goroutine failed.
C3_NoSilentLoss ==
    (State = "draining" /\ trailingErr = NoErr) => failed = {}

\* C4 as stated (unsupported events): once consumeEvents has handled a
\* delete-range, SSTable or unknown event, Next returns no further checkpoint
\* row.
C4_NoRowAfterBadEvent ==
    [][(ErrConsume \in failed) => (delivered' = delivered)]_vars

\* C4 (unsupported events), amended: once consumeEvents has handled a
\* delete-range, SSTable or unknown event, Next returns at most one further
\* checkpoint row, never moves to draining with a nil error, and once the
\* goroutine has reported the error it is in errCh or Next has drained.
C4_BadEventIsFatal ==
    ErrConsume \in failed =>
        /\ Len(delivered) <= rowsAtBadEvent + 1
        /\ State = "draining" => trailingErr # NoErr
        /\ consumePc \in {"exit", "done"} => (Len(errCh) > 0 \/ State = "draining")

\* Witness of C4: an unsupported event was handled while the flush loop held a
\* unit, Next returned that unit's checkpoint afterwards, and then drained
\* with the error of consumeEvents.
C4_Witness ==
    /\ ErrConsume \in failed
    /\ Len(delivered) = rowsAtBadEvent + 1
    /\ State = "draining" /\ trailingErr = ErrConsume

\* C5 (clean end of stream): when the subscription's event channel closes and
\* no error or shutdown occurs, the final unit is applied, its checkpoint is
\* returned by Next, checkpointCh is closed and Next moves to draining with no
\* error, every mutation received having been handled by HandleBatch.
C5_CleanEndOfStream ==
    (eventCh = "closed")
        ~> \/ /\ State = "draining" /\ trailingErr = NoErr
               /\ checkpointCh = "closed"
               /\ Len(delivered) = nFlushes
               /\ applied = 1..nRecv
           \/ failed # {}
           \/ stopCh = "closed"

\* C6 (shutdown terminates): once close() has closed stopCh and canceled the
\* subscription context, the three goroutines terminate and workerGroup.Wait
\* returns.
C6_ShutdownTerminates ==
    (closePc = "wait") ~> (Closed \/ closePc = "crashed")

\* What C10 says of one step.
NextArbitrates ==
    /\ (State = "running" /\ State' = "draining") =>
           IF Len(errCh) > 0
           THEN trailingErr' = Head(errCh) /\ errCh' = Tail(errCh)
           ELSE trailingErr' = NoErr /\ checkpointCh = "closed"
    /\ delivered' # delivered =>
           /\ State = "running" /\ State' = "running"
           /\ flushPc = "send"
           /\ delivered' = Append(delivered, [seq |-> bufferToFlush.seq,
                                               upto |-> bufferToFlush.upto,
                                               checkpoint |-> bufferToFlush.checkpoint])
    /\ State = "draining" =>
           /\ State' = "draining"
           /\ trailingErr' = trailingErr
           /\ delivered' = delivered

\* C10 (Next's arbitration): a running Next moves to draining with the error at
\* the head of errCh when errCh holds one, and with nil only when errCh is
\* empty and checkpointCh is closed; a row is returned only by a running Next,
\* and is the checkpoint flushLoop offers; once draining, Next stays draining
\* with the same error and returns no row.
C10_Arbitration == [][NextArbitrates]_vars

\* Witness of C10: Next returned a checkpoint row, then drained with an error
\* after checkpointCh was closed, and a second error is left in errCh.
C10_Witness ==
    /\ State = "draining" /\ trailingErr # NoErr
    /\ checkpointCh = "closed"
    /\ Len(delivered) >= 1
    /\ Len(errCh) = 1

\* Next has received an error from errCh.
ErrTaken == State = "draining" /\ trailingErr \notin {NoErr, ErrStart}

\* What C11 says of a state.
ErrChHoldsFirst ==
    /\ Len(errCh) <= 1
    /\ subPc = "returnedErr" => ENABLED SubSendError
    /\ consumePc = "failed" => ENABLED ConsumeSendError
    /\ flushPc = "failed" => ENABLED FlushLoopSendError
    /\ ErrTaken => (Len(sent) >= 1 /\ trailingErr = sent[1])
    /\ ~ErrTaken => errCh = (IF sent = <<>> THEN <<>> ELSE <<sent[1]>>)

\* What C11 says of a step that calls sendError.
SendKeepsPending ==
    sent' # sent =>
        /\ Len(sent') = Len(sent) + 1
        /\ errCh' = (IF Len(errCh) = 0 THEN <<sent'[Len(sent')]>> ELSE errCh)

\* C11 (first error wins): a goroutine at its sendError can always take the
\* step; errCh holds at most one error; an error sent while one is pending is
\* dropped and the pending one kept; the error Next receives is the first one
\* that was sent.
C11_FirstErrorWins == []ErrChHoldsFirst /\ [][SendKeepsPending]_vars

\* Witness of C11: three goroutines failed; Next drained with the first error
\* sent, the second was dropped while the first was pending, and the third
\* was sent after Next had emptied errCh.
C11_Witness ==
    /\ Len(sent) = 3
    /\ ErrTaken /\ trailingErr = sent[1]
    /\ errCh = <<sent[3]>>

\* A step of consumeEvents that calls maybeFlush.
MaybeFlushCalled ==
    /\ called' = "maybeFlush"
    /\ (nTicks' = nTicks + 1 \/ nEvents' # nEvents)

\* What C12 says of a step that calls maybeFlush.  buf is the buffer
\* maybeFlush finds: the one offered when it flushes, the one kept when not.
MaybeFlushStep ==
    MaybeFlushCalled =>
        LET buf == IF consumePc' = "flush" THEN offered'.buffer ELSE buffer'
            empty == Len(buf.curKVBatch) = 0
            advanced == \A sp \in Spans : frontier'[sp] > lastFlushFrontier
            noop == /\ consumePc' = "select"
                    /\ nEvents' = nEvents => buffer' = buffer
                    /\ Len(buffer'.curKVBatch) >= Len(buffer.curKVBatch)
                    /\ offered' = offered /\ offered = NoUnit
                    /\ nFlushes' = nFlushes
                    /\ lastFlushFrontier' = lastFlushFrontier
                    /\ lastFlushTime' = lastFlushTime
            asFlush == /\ consumePc' = "flush"
                       /\ buffer' = NewIngestionBuffer
                       /\ offered'.buffer = buf
                       /\ offered'.checkpoint =
                              {e \in [span : Spans, ts : {frontier'[sp] : sp \in Spans}] :
                                  e.ts = frontier'[e.span] /\ e.ts # 0}
                       /\ \E sp \in Spans : offered'.frontier = frontier'[sp]
                       /\ \A sp \in Spans : offered'.frontier <= frontier'[sp]
                       /\ nFlushes' = nFlushes + 1
        IN  /\ (empty /\ ~advanced) => noop
            /\ (~flushInProgress /\ (~empty \/ advanced)) => asFlush

\* C12 (maybeFlush): a maybeFlush call on an empty buffer with
\* frontier.Frontier() at or below lastFlushFrontier changes nothing: no swap
\* of the buffer, no snapshot, nothing offered on flushCh, lastFlushFrontier
\* and lastFlushTime as they were; a call with flushInProgress false and a
\* buffer that is not empty or a frontier past lastFlushFrontier does what
\* flush does.
C12_MaybeFlush == [][MaybeFlushStep]_vars

\* Witness of C12: one event brought a mutation and reached no threshold; then
\* the timer fired and its maybeFlush swapped the buffer and offers it on
\* flushCh.
C12_Witness ==
    /\ called = "maybeFlush" /\ consumePc = "flush"
    /\ nTicks = 1 /\ nEvents = 1 /\ nFlushes = 1
    /\ Len(offered.buffer.curKVBatch) = 1

\* The frontier entries with a timestamp that is not empty.
NonEmptyEntries(f) ==
    {e \in [span : Spans, ts : {f[sp] : sp \in Spans}] : e.ts = f[e.span] /\ e.ts # 0}

\* What C13 says of a step: flush pairs the buffer with every non-empty entry
\* of the frontier; the pair goes to flushLoop as it is; flushBuffer and the
\* rest of flushLoop leave the checkpoint alone; flushBuffer on an empty
\* buffer applies nothing and returns without error; the row Next returns
\* carries the checkpoint of the unit flushLoop holds.
CheckpointCarried ==
    /\ nFlushes' # nFlushes =>
           /\ offered'.checkpoint = NonEmptyEntries(frontier')
           /\ offered'.seq = nFlushes'
    /\ bufferToFlush'.seq # bufferToFlush.seq =>
           /\ bufferToFlush' = offered
           /\ consumePc = "flush" /\ flushPc = "recv"
    /\ bufferToFlush'.seq = bufferToFlush.seq =>
           bufferToFlush'.checkpoint = bufferToFlush.checkpoint
    /\ (/\ flushPc = "flushBuffer" /\ flushPc' \notin {flushPc, "crashed"}
        /\ Len(bufferToFlush.buffer.curKVBatch) = 0) =>
           /\ flushPc' = "send"
           /\ applied' = applied
           /\ failed' = failed /\ failedUnits' = failedUnits
    /\ delivered' # delivered =>
           /\ flushPc = "send" /\ flushPc' = "clear"
           /\ Len(delivered') = Len(delivered) + 1
           /\ SubSeq(delivered', 1, Len(delivered)) = delivered
           /\ delivered'[Len(delivered')].seq = bufferToFlush.seq
           /\ delivered'[Len(delivered')].checkpoint = bufferToFlush.checkpoint

\* C13 (empty flush advances progress): flushBuffer on a unit that holds no
\* mutation calls HandleBatch zero times and returns the unit's checkpoint
\* unchanged without error, and flushLoop delivers it; the checkpoint of every
\* delivered row is the one flush paired with the buffer, which holds every
\* frontier entry whose timestamp is not empty.
C13_EmptyFlushDelivers == [][CheckpointCarried]_vars

\* Witness of C13: the first unit was flushed with no mutation received and
\* nothing applied, and Next returned its checkpoint, which is not empty.
C13_Witness ==
    /\ Len(delivered) = 1
    /\ delivered[1].seq = 1 /\ delivered[1].upto = 0
    /\ delivered[1].checkpoint # {}
    /\ applied = {} /\ failed = {}

RECURSIVE SumOfSizes(_)
\* The sum of the sizes of the mutations of kvs.
SumOfSizes(kvs) == IF kvs = <<>> THEN 0 ELSE Size(Head(kvs)) + SumOfSizes(Tail(kvs))

\* The accounts of buffer b agree with the mutations it holds.
Accounted(b) ==
    /\ b.curKVBatchSize = SumOfSizes(b.curKVBatch)
    /\ IF b.curKVBatch = <<>> THEN b.minTimestamp = MaxTimestamp
       ELSE /\ \E i \in DOMAIN b.curKVBatch : b.minTimestamp = b.curKVBatch[i].ts
            /\ \A i \in DOMAIN b.curKVBatch : b.minTimestamp <= b.curKVBatch[i].ts

\* Buffer b is as reset leaves it.
IsReset(b) == b.curKVBatch = <<>> /\ b.curKVBatchSize = 0 /\ b.minTimestamp = MaxTimestamp

\* C16 (buffer accounting): in every buffer the pipeline holds, whatever
\* addKV calls built it, curKVBatchSize is the sum of the sizes of the
\* mutations of curKVBatch and minTimestamp is the least of their timestamps;
\* a buffer flushBuffer has released, and every buffer in the pool, holds no
\* mutation, has size 0 and has the maximum timestamp as minTimestamp.
C16_BufferAccounting ==
    /\ Accounted(buffer)
    /\ Accounted(offered.buffer)
    /\ Accounted(bufferToFlush.buffer)
    /\ \A g \in bufferPool : IsReset(g.b)
    /\ flushPc \in {"send", "clear"} => IsReset(bufferToFlush.buffer)
    /\ (\E g \in bufferPool : g.id = bufferToFlush.id) => IsReset(bufferToFlush.buffer)

\* Witness of C16: buffer 1 was flushed, released and taken again by the
\* second flush, so lrw.buffer is a reset buffer from the pool, while the
\* second unit holds two mutations of sizes 3 and 2 with timestamps 2 and 1.
C16_Witness ==
    /\ nFlushes = 2 /\ nBuffers = 2 /\ bufferId = 1
    /\ IsReset(buffer)
    /\ consumePc = "flush" /\ offered.id = 2
    /\ Len(offered.buffer.curKVBatch) = 2
    /\ offered.buffer.curKVBatchSize = 5
    /\ offered.buffer.minTimestamp = 1
    /\ offered.buffer.curKVBatch[1].ts = 2

\* C17 (malformed input is an error, not a crash): once handleEvent has been
\* given a KV event without mutations or a checkpoint event with nil resolved
\* spans, no goroutine has panicked, consumeEvents has returned the error of
\* handleEvent, and the error has been passed to sendError or is about to be,
\* so that it reaches Next through errCh unless an earlier error is pending.
C17_MalformedIsError ==
    malformed # "none" =>
        /\ consumePc # "panicked"
        /\ ErrConsume \in failed
        /\ consumePc \in {"failed", "exit", "done"}
        /\ consumePc # "failed" => ErrConsume \in Range(sent)

\* The part of C17 that holds: a checkpoint event with nil resolved spans
\* makes handleEvent return an error, which consumeEvents returns and its
\* goroutine passes to sendError.
C17_NilResolvedSpansIsError ==
    malformed = "Checkpoint" =>
        /\ ErrConsume \in failed
        /\ consumePc \in {"failed", "exit", "done"}
        /\ consumePc # "failed" => ErrConsume \in Range(sent)

\* A state in which that error has reached Next.
C17_NilResolvedSpansReported ==
    malformed = "Checkpoint" /\ State = "draining" /\ trailingErr = ErrConsume

\* The identities of the buffers in the pool.
Pooled == {g.id : g \in bufferPool}

\* flushLoop holds a unit it has received and whose flushBuffer call has not
\* returned: the flush path reads and sorts bufferToFlush.buffer.
FlushPathHoldsBuffer == flushPc \in {"store", "flushBuffer", "spinning"}

\* C18 (exclusive buffer ownership): the buffer consumeEvents works on is
\* never the one it is offering on flushCh, never the one flushBuffer is
\* working on and never one lying in the pool; the buffer flushBuffer works on
\* is not in the pool, where getBuffer could hand it to consumeEvents, and is
\* not the one being offered; a unit on which flushBuffer returned an error
\* was not released; no buffer is in the pool twice.
C18_ExclusiveOwnership ==
    /\ bufferId \in 1..nBuffers
    /\ bufferId \notin Pooled
    /\ consumePc = "flush" =>
           /\ offered.id # bufferId
           /\ offered.id \notin Pooled
    /\ FlushPathHoldsBuffer =>
           /\ bufferToFlush.id # bufferId
           /\ bufferToFlush.id \notin Pooled
           /\ consumePc = "flush" => offered.id # bufferToFlush.id
    /\ flushPc \in {"failed", "exit"} =>
           /\ bufferToFlush.id \notin Pooled
           /\ bufferToFlush.id # bufferId
    /\ Cardinality(Pooled) = Cardinality(bufferPool)

\* Witness of C18: buffer 1 was flushed and released, consumeEvents took it
\* back from the pool when it flushed buffer 2, and flushBuffer is now working
\* on buffer 2, which holds mutations.
C18_Witness ==
    /\ bufferId = 1 /\ nBuffers = 2 /\ nFlushes = 2
    /\ flushPc = "flushBuffer"
    /\ bufferToFlush.id = 2
    /\ Len(bufferToFlush.buffer.curKVBatch) > 0
    /\ consumePc = "select"

\* What C19 says of a step: flushLoop accepts a unit only at its receive,
\* when the unit before it, if any, has had its checkpoint delivered; while
\* flush is offering a unit consumeEvents takes no event and no tick and
\* touches no buffer, and it leaves flush only when flushLoop accepts the
\* unit or stopCh is closed.
OneFlushAtATime ==
    /\ bufferToFlush'.seq # bufferToFlush.seq =>
           /\ flushPc = "recv" /\ consumePc = "flush"
           /\ bufferToFlush' = offered
           /\ \/ bufferToFlush.seq = 0
              \/ \E i \in DOMAIN delivered : delivered[i].seq = bufferToFlush.seq
    /\ consumePc = "flush" =>
           /\ nEvents' = nEvents /\ nRecv' = nRecv /\ nTicks' = nTicks
           /\ buffer' = buffer /\ bufferId' = bufferId
           /\ consumePc' # "flush" =>
                  \/ flushPc = "recv" /\ bufferToFlush' = offered
                  \/ stopCh = "closed"

\* What C19 says of a state: a flush issued while flushLoop is applying or
\* delivering a unit cannot return until stopCh is closed, whatever
\* flushInProgress says, and at most two buffers hold mutations.
FlushBlocks ==
    /\ (consumePc = "flush" /\ flushPc # "recv" /\ stopCh = "open") =>
           /\ ~ENABLED FlushHandoff
           /\ ~ENABLED FlushAbandon
    /\ Cardinality({h \in {"lrw.buffer", "offered", "bufferToFlush"} :
           \/ h = "lrw.buffer" /\ Len(buffer.curKVBatch) > 0
           \/ h = "offered" /\ Len(offered.buffer.curKVBatch) > 0
           \/ h = "bufferToFlush" /\ flushPc \notin {"recv", "done"}
                                  /\ Len(bufferToFlush.buffer.curKVBatch) > 0}) <= 2

\* C19 (backpressure, one flush in flight): flushBuffer is applying at most
\* one unit at any time, whatever flushInProgress says; a flush issued while
\* flushLoop is applying or delivering the unit before blocks consumeEvents,
\* which takes no further event until flushLoop accepts the unit or stopCh is
\* closed; at most two buffers hold mutations.
C19_Backpressure == []FlushBlocks /\ [][OneFlushAtATime]_vars

\* Witness of C19: flushBuffer is applying unit 1 while flush offers unit 2,
\* both holding mutations, with stopCh open.
C19_Witness ==
    /\ consumePc = "flush" /\ offered.seq = 2
    /\ Len(offered.buffer.curKVBatch) > 0
    /\ flushPc = "flushBuffer" /\ bufferToFlush.seq = 1
    /\ Len(bufferToFlush.buffer.curKVBatch) > 0
    /\ flushInProgress
    /\ stopCh = "open"

\* A step in which maybeFlush returns without flushing.
MaybeFlushSkips ==
    /\ consumePc' = "select"
    /\ nFlushes' = nFlushes
    /\ offered' = offered

\* C20 as stated (in-flight flag): from the acceptance of a unit on flushCh
\* to the delivery of its checkpoint flushInProgress is true, and every
\* maybeFlush call made in between returns without flushing.
FlagCoversHandoff ==
    flushPc \in {"store", "flushBuffer", "spinning", "send"} => flushInProgress
SkipsFromHandoff ==
    (MaybeFlushCalled /\ flushPc \in {"store", "flushBuffer", "spinning", "send"})
        => MaybeFlushSkips
C20_FlagFromHandoff == []FlagCoversHandoff /\ [][SkipsFromHandoff]_vars

\* C20 as the code has it: flushLoop sets the flag after it has accepted the
\* unit, so the flag is true from that store, not from the handoff, until it
\* is cleared, which happens only after the unit's checkpoint was delivered;
\* every maybeFlush call made from the store to the clearing returns without
\* flushing.
FlagCoversFlush ==
    flushPc \in {"flushBuffer", "spinning", "send", "clear"} => flushInProgress
FlagProtocol ==
    /\ (~flushInProgress /\ flushInProgress') => flushPc = "store"
    /\ (flushInProgress /\ ~flushInProgress') =>
           /\ flushPc = "clear"
           /\ \E i \in DOMAIN delivered : delivered[i].seq = bufferToFlush.seq
    /\ (MaybeFlushCalled /\ flushPc \in {"flushBuffer", "spinning", "send", "clear"})
           => MaybeFlushSkips
C20_FlagFromStore == []FlagCoversFlush /\ [][FlagProtocol]_vars

\* Witness of C20: flushBuffer is applying a unit with the flag set, and the
\* last step of consumeEvents was a maybeFlush that left a buffer with
\* mutations unflushed.
C20_Witness ==
    /\ flushPc = "flushBuffer" /\ flushInProgress
    /\ called = "maybeFlush" /\ consumePc = "select"
    /\ Len(buffer.curKVBatch) > 0

\* The window C20 overlooks: flushLoop has accepted a unit and has not yet
\* stored the flag, and a maybeFlush call made there has started a flush.
C20_FlushInWindow ==
    /\ flushPc = "store" /\ ~flushInProgress
    /\ called = "maybeFlush" /\ consumePc = "flush"
    /\ bufferToFlush.seq + 1 = offered.seq

\* A step in which flush is called: it retires the buffer and takes the
\* snapshot.
FlushCalled == nFlushes' = nFlushes + 1

\* A step in which flush returns because flushLoop accepted the unit, and one
\* in which it returns because it observed stopCh.
FlushAccepted == consumePc = "flush" /\ bufferToFlush'.seq = offered.seq /\ flushPc' = "store"
FlushStopped == consumePc = "flush" /\ consumePc' # "flush" /\ ~FlushAccepted

\* What C21 says of a step.
FlushEffects ==
    /\ FlushCalled =>
           /\ consumePc' = "flush"
           /\ IsReset(buffer') /\ bufferId' # bufferId
           /\ offered'.id = bufferId
           /\ offered'.seq = nFlushes'
           /\ Len(offered'.buffer.curKVBatch) = Len(buffer.curKVBatch) + (nRecv' - nRecv)
           /\ SubSeq(offered'.buffer.curKVBatch, 1, Len(buffer.curKVBatch)) = buffer.curKVBatch
           /\ offered'.checkpoint = Entries(frontier')
           /\ offered'.frontier = Frontier(frontier')
           /\ lastFlushFrontier' = lastFlushFrontier /\ lastFlushTime' = lastFlushTime
    /\ FlushAccepted =>
           /\ bufferToFlush' = offered
           /\ lastFlushFrontier' = offered.frontier
           /\ lastFlushTime' = offered.seq /\ lastFlushTime' # lastFlushTime
           /\ consumePc' = afterFlush
           /\ failed' = failed /\ sent' = sent
    /\ FlushStopped =>
           /\ stopCh = "closed"
           /\ bufferToFlush' = bufferToFlush
           /\ lastFlushFrontier' = lastFlushFrontier /\ lastFlushTime' = lastFlushTime
           /\ consumePc' = afterFlush
           /\ failed' = failed /\ sent' = sent
    /\ (lastFlushFrontier' # lastFlushFrontier \/ lastFlushTime' # lastFlushTime) => FlushAccepted

\* C21 (effects of flush): flush replaces the current buffer with an empty one
\* and offers the retired buffer, with every mutation it held, together with a
\* snapshot of the frontier; when flushLoop accepts the unit flush sets
\* lastFlushFrontier to the frontier taken with the snapshot and updates
\* lastFlushTime; when it observes stopCh instead it returns nil and leaves
\* both unchanged; nothing else changes them.
C21_FlushEffects == [][FlushEffects]_vars

\* Witness of C21: unit 1 was accepted and recorded, then unit 2, which held
\* mutations, was offered and abandoned on stopCh: lastFlushTime is still that
\* of unit 1.
C21_Witness ==
    /\ stopCh = "closed"
    /\ nFlushes = 2 /\ lastFlushTime = 1
    /\ consumePc \in {"exit", "done"} /\ offered = NoUnit
    /\ nRecv > bufferToFlush.upto
    /\ bufferToFlush.seq = 1

\* The event types handleEvent does not support.
Unsupported == {"SSTable", "DeleteRange", "Unknown"}

\* A step in which handleEvent is given an event of type ty.
HandleEventOn(ty) == nEvents' = nEvents + 1 /\ handled' = ty

\* What C22 says of a step: handling an unsupported event changes nothing of
\* the buffer, the frontier and the flush bookkeeping, calls neither flush nor
\* maybeFlush and makes consumeEvents return an error; once it has, no step
\* takes an event or a tick, and the frontier stays until close releases it.
UnsupportedFails ==
    /\ (\E ty \in Unsupported : HandleEventOn(ty)) =>
           /\ buffer' = buffer /\ bufferId' = bufferId
           /\ frontier' = frontier
           /\ lastFlushFrontier' = lastFlushFrontier /\ lastFlushTime' = lastFlushTime
           /\ called' = "none" /\ nFlushes' = nFlushes /\ offered' = offered
           /\ bufferPool' = bufferPool
           /\ consumePc' = "failed"
           /\ failed' = failed \cup {ErrConsume}
    /\ handled \in Unsupported =>
           /\ nEvents' = nEvents /\ nTicks' = nTicks /\ nRecv' = nRecv
           /\ handled' = handled
           /\ buffer' = buffer /\ nFlushes' = nFlushes
           /\ frontier' = frontier \/ (WorkersDone /\ frontier' = Release(frontier))

\* What C22 says of a state: after an unsupported event consumeEvents has
\* returned, and its goroutine has passed the error to sendError before it
\* ends.
UnsupportedReported ==
    handled \in Unsupported =>
        /\ consumePc \in {"failed", "exit", "done"}
        /\ consumePc \in {"exit", "done"} =>
               \E i \in DOMAIN sent : sent[i] = ErrConsume

\* C22 (unsupported events fail the pipeline without side effects): on an
\* SSTable, delete-range or unknown-type event handleEvent returns an error
\* without changing the buffer, the frontier, lastFlushFrontier or
\* lastFlushTime and without calling flush or maybeFlush; consumeEvents
\* returns that error, which goes to sendError, and handles no further event
\* or timer tick.
C22_UnsupportedEventFails == []UnsupportedReported /\ [][UnsupportedFails]_vars

\* Witness of C22: an unsupported event arrived while the buffer held
\* mutations not yet flushed; consumeEvents has ended without flushing them
\* and Next has drained with its error.
C22_Witness ==
    /\ handled \in Unsupported
    /\ consumePc = "done"
    /\ Len(buffer.curKVBatch) > 0 /\ nFlushes = 0
    /\ State = "draining" /\ trailingErr = ErrConsume

\* What C23 says of a step in which handleEvent is given a split event.
SplitChangesNothing ==
    HandleEventOn("Split") =>
        /\ buffer' = buffer /\ bufferId' = bufferId
        /\ frontier' = frontier
        /\ lastFlushFrontier' = lastFlushFrontier /\ lastFlushTime' = lastFlushTime
        /\ offered' = offered /\ nFlushes' = nFlushes
        /\ consumePc' = "select"

\* C23 (a split notice causes no state change): handling a split event
\* leaves the current buffer, in identity and contents, the frontier,
\* lastFlushFrontier and lastFlushTime unchanged and hands nothing to the
\* flush loop.
C23_SplitChangesNothing == [][SplitChangesNothing]_vars

\* What does hold of a split event: it adds no mutation and leaves the
\* frontier alone, and the buffer changes only by being retired whole in a
\* flush that the thresholds ask for.
SplitOnlyFlushes ==
    HandleEventOn("Split") =>
        /\ frontier' = frontier /\ nRecv' = nRecv
        /\ lastFlushFrontier' = lastFlushFrontier /\ lastFlushTime' = lastFlushTime
        /\ \/ buffer' = buffer /\ bufferId' = bufferId /\ offered' = offered
              /\ nFlushes' = nFlushes
           \/ FlushCalled /\ offered'.buffer = buffer /\ offered'.id = bufferId
              /\ (\E kvBufMax \in KVBufMaxes, kvBufLenTarget \in KVBufLenTargets :
                     shouldFlushOnKVSize(buffer, kvBufMax, kvBufLenTarget)[1])
C23_SplitOnlyFlushes == [][SplitOnlyFlushes]_vars

\* A state in which the unit that the handling of a split event retired has
\* been accepted by flushLoop and recorded by flush.
C23_SplitFlushed ==
    /\ handled = "Split" /\ called = "maybeFlush"
    /\ nFlushes = 1 /\ bufferToFlush.seq = 1 /\ lastFlushTime = 1
    /\ Len(bufferToFlush.buffer.curKVBatch) > 0

\* What C25 says of a state: stopCh was never closed when it was closed
\* already, and it is closed exactly when close() has been called.
StopChClosedOnce ==
    /\ stopCh # "panic"
    /\ stopCh = "closed" <=> nCloses >= 1

\* What C25 says of a step: the first call of close() closes stopCh, every
\* later call finds the processor closed and returns with nothing changed,
\* and no other step touches stopCh.
CloseClosesFirstOnly ==
    /\ (nCloses' = nCloses + 1 /\ nCloses = 0) =>
           stopCh = "open" /\ stopCh' = "closed"
    /\ (nCloses' = nCloses + 1 /\ nCloses >= 1) =>
           /\ Closed /\ Closed'
           /\ stopCh = "closed" /\ stopCh' = "closed"
           /\ closePc = "idle" /\ closePc' = "idle"
           /\ subscriptionCtx' = subscriptionCtx
    /\ stopCh' # stopCh => nCloses' = nCloses + 1

\* C25 (the stop signal is closed exactly once): across any sequence of
\* ConsumerClosed calls and trailing-metadata callbacks, also after Start
\* failed before launching any goroutine, the first close() closes stopCh and
\* every later close() returns before the close of stopCh, so stopCh is never
\* closed twice.
C25_StopChClosedOnce == []StopChClosedOnce /\ [][CloseClosesFirstOnly]_vars

\* Witness of C25: close() was called twice on a processor whose goroutines
\* were launched; the first call closed stopCh and waited for them, the second
\* returned at once.
C25_Witness ==
    /\ nCloses = 2 /\ Closed /\ closePc = "idle"
    /\ stopCh = "closed"
    /\ subPc = "done" /\ consumePc = "done" /\ flushPc = "done"

\* The same after Start failed before it launched any goroutine.
C25_AfterStartFailed ==
    /\ nCloses = 2 /\ Closed /\ closePc = "idle"
    /\ stopCh = "closed"
    /\ trailingErr = ErrStart /\ subPc = "idle" /\ consumePc = "idle" /\ flushPc = "idle"

\* The timestamp a checkpoint gives for a span: empty (0) when it has no
\* entry for it.
TsOf(checkpoint, sp) ==
    IF \E e \in checkpoint : e.span = sp
    THEN (CHOOSE e \in checkpoint : e.span = sp).ts
    ELSE 0

\* What C27 says of a state: the delivered checkpoints are those of handed-off
\* units in the order of their handoff, one at most for each unit, and from
\* one to the next the timestamp of no span decreases.
DeliveredInOrder ==
    /\ \A i \in DOMAIN delivered :
          /\ delivered[i].seq \in 1..bufferToFlush.seq
          /\ \A e1, e2 \in delivered[i].checkpoint : e1.span = e2.span => e1 = e2
    /\ \A i, j \in DOMAIN delivered :
          i < j =>
              /\ delivered[i].seq < delivered[j].seq
              /\ \A sp \in Spans :
                    TsOf(delivered[i].checkpoint, sp) <= TsOf(delivered[j].checkpoint, sp)

\* What C27 says of a step: Next delivers the checkpoint of the unit flushLoop
\* holds, which is the snapshot flush took of the frontier; the frontier
\* decreases for no span until close releases it, once every goroutine has
\* returned, and lastFlushFrontier does not decrease.
ProgressMoves ==
    /\ delivered' # delivered =>
          /\ Len(delivered') = Len(delivered) + 1
          /\ SubSeq(delivered', 1, Len(delivered)) = delivered
          /\ delivered'[Len(delivered')].seq = bufferToFlush.seq
          /\ delivered'[Len(delivered')].checkpoint = bufferToFlush.checkpoint
    /\ FlushCalled => offered'.checkpoint = Entries(frontier')
    /\ \/ \A sp \in Spans : frontier'[sp] >= frontier[sp]
       \/ WorkersDone /\ Closed' /\ frontier' = Release(frontier)
    /\ lastFlushFrontier' >= lastFlushFrontier

\* C27 (delivered progress is monotonic): checkpoints reach Next in the order
\* in which their units were handed off by flush, each handed-off unit yields
\* at most one delivered checkpoint, the timestamp covering a key of the
\* tracked spans never decreases from one delivered checkpoint to the next,
\* the frontier they are snapshots of never decreasing before close releases
\* it, and lastFlushFrontier
\* never decreases.
C27_DeliveredProgressMonotonic == []DeliveredInOrder /\ [][ProgressMoves]_vars

\* Witness of C27: two checkpoints were delivered, the second with a later
\* timestamp for span 1 than the first.
C27_Witness ==
    /\ Len(delivered) = 2
    /\ TsOf(delivered[1].checkpoint, 1) < TsOf(delivered[2].checkpoint, 1)

\* A state in which lastFlushFrontier has moved up and the checkpoint of that
\* flush was delivered.
C27_FrontierRecorded ==
    /\ lastFlushFrontier > 0
    /\ Len(delivered) >= 1
    /\ \A sp \in Spans : TsOf(delivered[Len(delivered)].checkpoint, sp) >= lastFlushFrontier

\* ------------------------------------------------ claims on flushBuffer

\* flushBuffer has launched its workers without panicking.
FBChunked == fbPc = "workers" \/ (fbPc = "returned" /\ fbKvs # <<>>)

\* The worker whose chunk holds position p (0 when no chunk does).
WorkerOf(p) ==
    IF \E w \in DOMAIN fbChunks : fbChunks[w].chunkStart <= p /\ p < fbChunks[w].chunkEnd
    THEN CHOOSE w \in DOMAIN fbChunks : fbChunks[w].chunkStart <= p /\ p < fbChunks[w].chunkEnd
    ELSE 0

\* C7 (key locality): no chunk ends between two adjacent sorted mutations with
\* equal split-safe key; any two mutations with equal split-safe key lie in
\* the chunk of one worker, and every successful HandleBatch on them was made
\* by that worker.
C7_KeyLocality ==
    FBChunked =>
        /\ \A w \in DOMAIN fbChunks :
              fbChunks[w].chunkEnd < Len(fbKvs) =>
                  k(At(fbKvs, fbChunks[w].chunkEnd - 1)) # k(At(fbKvs, fbChunks[w].chunkEnd))
        /\ \A p, q \in 0..(Len(fbKvs) - 1) :
              k(At(fbKvs, p)) = k(At(fbKvs, q)) => WorkerOf(p) = WorkerOf(q)
        /\ \A i, j \in DOMAIN fbHandled :
              k(At(fbKvs, fbHandled[i].pos)) = k(At(fbKvs, fbHandled[j].pos))
                  => fbHandled[i].worker = fbHandled[j].worker

\* Witness of C7: a chunk was extended past chunkSize over a run of equal
\* split-safe keys, another chunk follows it, and all workers succeeded.
C7_Witness ==
    /\ fbPc = "returned" /\ ~fbErr
    /\ Len(fbHandled) = Len(fbKvs)
    /\ \E w \in DOMAIN fbChunks :
          /\ w < Len(fbChunks)
          /\ fbChunks[w].chunkEnd - fbChunks[w].chunkStart
                > ChunkSize(Len(fbKvs), fbWorkers, fbBatchSize)

\* C8 (ordering within a flush): each worker's successful HandleBatch calls
\* cover its chunk from its start in ascending position without a gap, and any
\* two mutations with equal split-safe key are applied in non-decreasing
\* source-timestamp order.
C8_Ordering ==
    /\ \A i, j \in DOMAIN fbHandled :
          i < j =>
              /\ fbHandled[i].worker = fbHandled[j].worker
                    => fbHandled[i].pos < fbHandled[j].pos
              /\ k(At(fbKvs, fbHandled[i].pos)) = k(At(fbKvs, fbHandled[j].pos))
                    => At(fbKvs, fbHandled[i].pos).ts <= At(fbKvs, fbHandled[j].pos).ts
    /\ \A w \in DOMAIN fbChunks :
          {fbHandled[i].pos : i \in {j \in DOMAIN fbHandled : fbHandled[j].worker = w}}
              = fbChunks[w].chunkStart .. (fbChunks[w].batchStart - 1)

\* Witness of C8: the sort reordered the buffer, two mutations of one
\* split-safe key with different timestamps were applied oldest first, and a
\* sub-batch of a later chunk was applied before one of an earlier chunk.
C8_Witness ==
    /\ fbPc = "returned" /\ ~fbErr
    /\ fbReordered
    /\ \E i, j \in DOMAIN fbHandled :
          /\ i < j
          /\ k(At(fbKvs, fbHandled[i].pos)) = k(At(fbKvs, fbHandled[j].pos))
          /\ At(fbKvs, fbHandled[i].pos).ts < At(fbKvs, fbHandled[j].pos).ts
    /\ \E i, j \in DOMAIN fbHandled :
          i < j /\ fbHandled[i].worker > fbHandled[j].worker

\* C9 (coverage): flushBuffer never reaches its assertion panic; the chunks of
\* a non-empty buffer are non-empty, contiguous from position 0, end at
\* len(kvs), and number at most len(lrw.bh).
C9_Coverage ==
    /\ fbPc # "panicked"
    /\ FBChunked =>
          /\ Len(fbChunks) >= 1
          /\ Len(fbChunks) <= fbWorkers
          /\ fbChunks[1].chunkStart = 0
          /\ \A w \in DOMAIN fbChunks :
                /\ fbChunks[w].chunkStart < fbChunks[w].chunkEnd
                /\ w > 1 => fbChunks[w].chunkStart = fbChunks[w - 1].chunkEnd
          /\ fbChunks[Len(fbChunks)].chunkEnd = Len(fbKvs)

\* Witness of C9: a pool of two handlers, both used, on a buffer of three
\* mutations with the smallest batch sizes.
C9_Witness ==
    /\ fbPc = "workers"
    /\ fbWorkers = 2 /\ Len(fbChunks) = 2 /\ Len(fbKvs) = 3
    /\ fbBatchSize \in {0, 1}

\* The chunks of flushBuffer are contiguous from position 0, none is empty,
\* only the last one may be shorter than nominal, and a chunk longer than
\* nominal is so by a run of equal split-safe keys that starts at the last
\* position the nominal length gives it.
ChunksSized(nominal) ==
    \A w \in DOMAIN fbChunks :
        LET c == fbChunks[w]
            len == c.chunkEnd - c.chunkStart
        IN  /\ c.chunkStart = IF w = 1 THEN 0 ELSE fbChunks[w - 1].chunkEnd
            /\ len >= 1
            /\ len < nominal => (w = Len(fbChunks) /\ c.chunkEnd = Len(fbKvs))
            /\ len > nominal =>
                   \A p \in (c.chunkStart + nominal)..(c.chunkEnd - 1) :
                       k(At(fbKvs, p - 1)) = k(At(fbKvs, p))

\* C24 as stated (chunk sizing): the chunks are contiguous and their nominal
\* length is n/W + 1 for every batch-size setting; a chunk is longer only by
\* the forward extension over a run of equal split-safe keys, and only the
\* last chunk may be shorter.
C24_ChunkSizing ==
    FBChunked => ChunksSized((Len(fbKvs) \div fbWorkers) + 1)

\* C24 as the code has it: the nominal length is the larger of n/W + 1 and
\* the batch size; a chunk is longer only by the forward extension over a run
\* of equal split-safe keys, and only the last chunk may be shorter.
C24_ChunkSizingWithBatchSize ==
    FBChunked =>
        ChunksSized(IF fbBatchSize > (Len(fbKvs) \div fbWorkers) + 1
                    THEN fbBatchSize ELSE (Len(fbKvs) \div fbWorkers) + 1)

\* Witness of C24: the batch size is above n/W + 1 and the first chunk has
\* the length of a batch, with two different split-safe keys in it, and a
\* second chunk follows.
C24_Witness ==
    /\ FBChunked
    /\ fbBatchSize > (Len(fbKvs) \div fbWorkers) + 1
    /\ Len(fbChunks) = 2
    /\ fbChunks[1].chunkEnd - fbChunks[1].chunkStart = fbBatchSize
    /\ k(At(fbKvs, 0)) # k(At(fbKvs, 1))

\* What C26 says of a step: a HandleBatch call that returns nil moves the
\* worker's batchStart forward.  batchStart is all that changes from one
\* iteration of the sub-batch loop to the next, so an iteration that leaves
\* it where it was is repeated for ever.
HandleBatchAdvances ==
    \A w \in DOMAIN fbChunks :
        (/\ w \in DOMAIN fbChunks'
         /\ fbChunks'[w].calls = fbChunks[w].calls + 1
         /\ fbChunks'[w].state # "failed")
            => fbChunks'[w].batchStart > fbChunks[w].batchStart

\* What C26 says of a state: a worker has made no more HandleBatch calls than
\* its chunk has mutations, and flushBuffer returns nil only when every worker
\* has reached its chunk end.
CallsBounded ==
    /\ \A w \in DOMAIN fbChunks :
          fbChunks[w].calls <= fbChunks[w].chunkEnd - fbChunks[w].chunkStart
    /\ (fbPc = "returned" /\ ~fbErr) =>
          \A w \in DOMAIN fbChunks : fbChunks[w].batchStart = fbChunks[w].chunkEnd

\* C26 (sub-batch loop termination): for every non-empty buffer and every
\* batch size the setting admits, 0 included, each HandleBatch call that
\* returns nil advances the worker towards its chunk end, so that the worker
\* is past it after at most as many calls as its chunk has mutations and
\* flushBuffer returns.
C26_SubBatchLoopTerminates == []CallsBounded /\ [][HandleBatchAdvances]_vars

\* The same for the batch sizes of at least 1.
C26_TerminatesOnPositiveBatchSize ==
    fbBatchSize > 0 =>
        /\ CallsBounded
        /\ \A w \in DOMAIN fbChunks :
              fbChunks[w].batchStart >=
                  Min(fbChunks[w].chunkStart + fbChunks[w].calls * fbBatchSize,
                      fbChunks[w].chunkEnd)
                  - (IF fbChunks[w].state = "failed" THEN fbBatchSize ELSE 0)

\* A state in which a worker has called HandleBatch more often than its chunk
\* has mutations, every call having returned nil, and stands where it began.
C26_Spinning ==
    \E w \in DOMAIN fbChunks :
        /\ fbChunks[w].state = "running"
        /\ fbChunks[w].calls > fbChunks[w].chunkEnd - fbChunks[w].chunkStart
        /\ fbChunks[w].batchStart = fbChunks[w].chunkStart

\* ------------------------------------------------ claims on single calls

\* shouldFlushOnKVSize has returned from a call.
ShouldFlushReturned == callPc = "returned" /\ callArgs.fn = "shouldFlushOnKVSize"

\* C14 as stated (flush triggers): shouldFlushOnKVSize returns (true, true)
\* when the byte size of the buffer is at or above the hard limit, whatever
\* the limit; otherwise (true, false) when the row count is at or above the
\* soft target; otherwise (false, false).
C14_FlushTriggers ==
    ShouldFlushReturned =>
        callResult =
            IF callArgs.b.curKVBatchSize >= callArgs.kvBufMax THEN <<TRUE, TRUE>>
            ELSE IF Len(callArgs.b.curKVBatch) >= callArgs.kvBufLenTarget THEN <<TRUE, FALSE>>
            ELSE <<FALSE, FALSE>>

\* C14 as the code has it: (true, true) is returned when the hard limit is
\* positive and the byte size is at or above it; a hard limit of 0 never
\* forces a flush.  Otherwise (true, false) when the row count is at or above
\* the soft target, and otherwise (false, false).
C14_FlushTriggersPositiveLimit ==
    ShouldFlushReturned =>
        LET size == callArgs.b.curKVBatchSize
            rows == Len(callArgs.b.curKVBatch)
            must == callArgs.kvBufMax > 0 /\ size >= callArgs.kvBufMax
            should == must \/ rows >= callArgs.kvBufLenTarget
        IN  /\ callResult[2] = must
            /\ callResult[1] = should
            /\ callArgs.kvBufMax = 0 => callResult[2] = FALSE

\* Witness of C14: a buffer of two mutations under a hard limit of 0 and a
\* soft target of 3: its size is above the limit and neither flush is asked.
C14_Witness ==
    /\ ShouldFlushReturned
    /\ callArgs.kvBufMax = 0 /\ callArgs.kvBufLenTarget = 3
    /\ Len(callArgs.b.curKVBatch) = 2
    /\ callArgs.b.curKVBatchSize > callArgs.kvBufMax
    /\ callResult = <<FALSE, FALSE>>

\* bufferCheckpoint has returned from a call.
BufferCheckpointReturned == callPc = "returned" /\ callArgs.fn = "bufferCheckpoint"

\* C15 (quantization): with granularity d > 0 a resolved timestamp T after
\* the initial-scan timestamp is forwarded with wall time T - (T mod d) and
\* logical part 0, the greatest multiple of d not above T, so the frontier is
\* not moved above T; with d = 0, or T at or below the initial-scan timestamp,
\* T is forwarded as it is.  A frontier that held nothing for the span
\* records the forwarded timestamp.
C15_Quantization ==
    BufferCheckpointReturned =>
        LET T == callArgs.ts
            d == callArgs.d
            q == callResult.forwarded
            above == T.WallTime > callArgs.initialScan.WallTime
                     \/ (/\ T.WallTime = callArgs.initialScan.WallTime
                         /\ T.Logical > callArgs.initialScan.Logical)
        IN  /\ (d > 0 /\ above) =>
                   /\ q.Logical = 0
                   /\ q.WallTime = T.WallTime - (T.WallTime % d)
                   /\ \E m \in 0..T.WallTime : q.WallTime = m * d
                   /\ q.WallTime <= T.WallTime
                   /\ \A m \in 0..T.WallTime : m * d <= T.WallTime => m * d <= q.WallTime
            /\ (d = 0 \/ ~above) => q = T
            /\ callArgs.frontier = HLC(0, 0) => callResult.frontier = q
            /\ ~TimestampLess(T, callArgs.frontier) => ~TimestampLess(T, callResult.frontier)

\* Witness of C15: a notice at wall time 7 with a logical part, granularity 5
\* and an empty frontier: the frontier records wall time 5, logical 0.
C15_Witness ==
    /\ BufferCheckpointReturned
    /\ callArgs.ts = HLC(7, 1) /\ callArgs.d = 5
    /\ callArgs.initialScan = HLC(3, 1) /\ callArgs.frontier = HLC(0, 0)
    /\ callResult.frontier = HLC(5, 0)

====
